---- MODULE Spec2Model ----
(***************************************************************************)
(* The instruction encoder of the wasmi register-machine translator        *)
(* (crates/wasmi/src/engine/translator/instr_encoder.rs) as a state        *)
(* machine.  The encoder state is the instruction sequence, the label      *)
(* registry, the last-instruction slot, the preservation notification and  *)
(* the constant pool of the borrowed value stack.  Every encoder method is *)
(* an operator from an encoder state `e` to [e |-> new state, ret |-> the  *)
(* returned value]; an action applies one method to the current state.     *)
(***************************************************************************)
EXTENDS Integers, Sequences, FiniteSets, TLC

VARIABLES instrs, labels, users, last_instr, notified_preservation, consts, ret, call, input, stamp

vars == <<instrs, labels, users, last_instr, notified_preservation, consts, ret, call, input, stamp>>

(***************************************************************************)
(* Bounds of the model.                                                    *)
(***************************************************************************)
\* Number of local registers of the translated function: registers 0..NumLocals-1.
NumLocals == 1
\* Number of dynamic (operand stack) registers: NumLocals..NumLocals+NumDyn-1.
NumDyn == 2
\* Longest instruction sequence from which an encode operation is started; push_instr
\* adds the input instruction to shorter sequences only.
MaxInstrs == 2
\* Most labels created by new_label.
MaxLabels == 1
\* Longest copy sequence handed to encode_copies.
MaxCopies == 3
\* Most parameter words appended with append_instr behind the last instruction.
MaxParams == 3
\* The largest index an Instr holds.  The program's is u32::MAX; the model's is
\* small enough for a sequence to grow past it and larger than every sequence the
\* encode operations build from at most MaxInstrs + MaxParams words.
InstrIndexMax == 11

\* The largest offset a BranchOffset16 holds.  The program's is i16::MAX; the model's
\* is below InstrIndexMax, so that a sequence holds branches too far for it, and
\* above every offset between the words that MaxInstrs + MaxParams pushes and the
\* encode operations on them build.
OffsetMax == 8

\* Longest list of providers handed to encode_register_list alone: two full
\* register_list words and a last word.
MaxList == 7

\* Longest register span copied: its copies reach the first whole unit of fuel that
\* fuel_for_copies charges.
MaxSpan == 62

(***************************************************************************)
(* Option, Result and the encoder state record.                            *)
(***************************************************************************)
\* Option::<Instr>::None; Some(i) is the index i >= 0.
None == -1

Ok(v) == [tag |-> "Ok", val |-> v, err |-> ""]
Err(kind) == [tag |-> "Err", val |-> 0, err |-> kind]
Panic(msg) == [tag |-> "Panic", val |-> 0, err |-> msg]

IsOk(r) == r.tag = "Ok"

\* The encoder state as one value.
Enc == [instrs |-> instrs, labels |-> labels, users |-> users, last_instr |-> last_instr, notified_preservation |-> notified_preservation, consts |-> consts]

\* The primed encoder state as one value.
EncNext == [instrs |-> instrs', labels |-> labels', users |-> users', last_instr |-> last_instr', notified_preservation |-> notified_preservation', consts |-> consts']

\* InstrEncoder::default(): the state after construction.
EmptyEnc == [instrs |-> <<>>, labels |-> <<>>, users |-> <<>>, last_instr |-> None, notified_preservation |-> None, consts |-> <<>>]

(***************************************************************************)
(* Registers, register spaces and the constant pool of the value stack.    *)
(***************************************************************************)
LocalRegs == 0 .. (NumLocals - 1)
DynRegs == NumLocals .. (NumLocals + NumDyn - 1)
Regs == LocalRegs \cup DynRegs

\* ValueStack::get_register_space: constants are negative, locals come first.
get_register_space(reg) == IF reg < 0 THEN "Const" ELSE IF reg < NumLocals THEN "Local" ELSE IF reg < NumLocals + NumDyn THEN "Dynamic" ELSE "Storage"

\* ValueStack::alloc_const: a new slot in the constant space, below register 0.
alloc_const(e, value) == [e |-> [e EXCEPT !.consts = Append(@, value)], ret |-> Ok(0 - (Len(e.consts) + 1))]

\* Register::next
next(reg) == reg + 1

(***************************************************************************)
(* Values as bit patterns: a sequence of 16-bit limbs, most significant    *)
(* first (two limbs for 32-bit, four limbs for 64-bit values).             *)
(***************************************************************************)
TypedValue(ty, bits) == [ty |-> ty, bits |-> bits]

\* TypedProvider::Register / TypedProvider::Const
Register(reg) == [kind |-> "Register", reg |-> reg]
Const(value) == [kind |-> "Const", value |-> value]

\* Const32::<i64>::try_from that succeeds when the pattern zero-extends its low 32
\* bits.
FitsI64Imm32ZeroExtended(bits) == bits[1] = 0 /\ bits[2] = 0

\* The 64-bit pattern sign-extends its low 32 bits: Const32::<i64>::try_from succeeds.
FitsI64Imm32(bits) == IF bits[3] >= 32768 THEN bits[1] = 65535 /\ bits[2] = 65535 ELSE bits[1] = 0 /\ bits[2] = 0

\* Const32::<f64>::try_from: the f64 pattern survives the round trip through f32
\* (zero, or a normal f32 exponent with the low 29 mantissa bits clear).
FitsF64Imm32(bits) == LET exp == (bits[1] % 32768) \div 16
                          lowClear == bits[4] = 0 /\ bits[3] % 8192 = 0
                          zero == bits[1] % 32768 = 0 /\ bits[2] = 0 /\ bits[3] = 0 /\ bits[4] = 0
                      IN zero \/ (lowClear /\ exp >= 897 /\ exp <= 1150)

\* Const32::<f64>::from: the f32 pattern of an f64 pattern that FitsF64Imm32 accepts
\* (sign, exponent rebiased from 1023 to 127, the top 23 mantissa bits).
F64ToF32(bits) == IF bits[1] % 32768 = 0 /\ bits[2] = 0 THEN <<bits[1], 0>> ELSE <<(bits[1] \div 32768) * 32768 + (((bits[1] % 32768) \div 16) - 896) * 128 + (bits[1] % 16) * 8 + (bits[2] \div 8192), (bits[2] % 8192) * 8 + (bits[3] \div 8192)>>

(***************************************************************************)
(* Instruction words.                                                      *)
(***************************************************************************)
\* BinInstr{result, lhs, rhs}
BinInstr(op, result, lhs, rhs) == [op |-> op, result |-> result, lhs |-> lhs, rhs |-> rhs]
\* BinInstrImm16{result, reg_in, imm_in}: imm_in is the 16-bit immediate as an integer.
BinInstrImm16(op, result, reg_in, imm_in) == [op |-> op, result |-> result, reg_in |-> reg_in, imm_in |-> imm_in]
\* Fused compare and branch on two registers.
BranchBinOpInstr(op, lhs, rhs, offset) == [op |-> op, lhs |-> lhs, rhs |-> rhs, offset |-> offset]
\* Fused compare and branch on a register and a 16-bit immediate.
BranchBinOpInstrImm16(op, reg_in, imm_in, offset) == [op |-> op, reg_in |-> reg_in, imm_in |-> imm_in, offset |-> offset]
\* Instruction::Branch{offset}
Branch(offset) == [op |-> "Branch", offset |-> offset]
\* Instruction::ConsumeFuel
ConsumeFuel(amount) == [op |-> "ConsumeFuel", amount |-> amount]
\* copy, copy_imm32, copy_i64imm32, copy_f64imm32
CopyInstr(op, result, value) == [op |-> op, result |-> result, value |-> value]
\* copy2 / copy_many / copy_many_non_overlapping: destination span head and two registers.
CopyRegs(op, results, r0, r1) == [op |-> op, results |-> results, values |-> <<r0, r1>>]
\* copy_span / copy_span_non_overlapping
CopySpan(op, results, values, len) == [op |-> op, results |-> results, values |-> values, len |-> len]
\* register, register2, register3, register_list
RegisterWord(op, regs) == [op |-> op, regs |-> regs]
\* Return, return_reg, return_reg2, return_reg3, return_many: the returned registers.
ReturnRegs(op, regs) == [op |-> op, values |-> regs]
\* return_imm32, return_i64imm32, return_f64imm32: the 32-bit pattern returned.
ReturnImm(op, value) == [op |-> op, value |-> value]
\* return_span: the head of the register span and its length.
ReturnSpan(op, span, len) == [op |-> op, values |-> span, len |-> len]
\* return_nez, return_nez_reg, return_nez_reg2, return_nez_many
ReturnNezRegs(op, condition, regs) == [op |-> op, condition |-> condition, values |-> regs]
\* return_nez_imm32, return_nez_i64imm32, return_nez_f64imm32
ReturnNezImm(op, condition, value) == [op |-> op, condition |-> condition, value |-> value]
\* return_nez_span
ReturnNezSpan(op, condition, span, len) == [op |-> op, condition |-> condition, values |-> span, len |-> len]

(***************************************************************************)
(* Instruction sequence.                                                   *)
(***************************************************************************)
\* InstrSequence::next_instr: handles are 0-based indices.  Its Instr::from_usize
\* panics past the limit of Instr; the callers below test that with from_usize.
next_instr(e) == Len(e.instrs)

\* InstrSequence::get
get(e, instr) == e.instrs[instr + 1]

\* InstrSequence::get_mut followed by a store of `word`.
set_instr(e, instr, word) == [e EXCEPT !.instrs[instr + 1] = word]

\* Instr::from_usize: the index as an Instr; panics if it exceeds the limit of Instr.
from_usize(value) == IF value > InstrIndexMax THEN Panic("invalid index for instruction reference") ELSE Ok(value)

\* Instr::distance by a saturating subtraction in place of the absolute difference.
distance_saturating(instr, other) == IF instr >= other THEN instr - other ELSE 0

\* Instr::distance
distance(instr, other) == IF instr >= other THEN instr - other ELSE other - instr

\* InstrSequence::push: next_instr, which is from_usize of the length, then the push.
push(e, instruction) == IF ~IsOk(from_usize(Len(e.instrs))) THEN [e |-> e, ret |-> from_usize(Len(e.instrs))] ELSE [e |-> [e EXCEPT !.instrs = Append(@, instruction)], ret |-> Ok(Len(e.instrs))]

\* InstrSequence::push_before that returns the handle it was given.
push_before_same_handle(e, instr, instruction) ==
  IF instr > Len(e.instrs) THEN [e |-> e, ret |-> Panic("insertion index out of bounds")]
  ELSE [e |-> [e EXCEPT !.instrs = SubSeq(@, 1, instr) \o <<instruction>> \o SubSeq(@, instr + 1, Len(@))], ret |-> Ok(instr)]

\* InstrSequence::push_before that appends the word instead of inserting it.
push_before_appends(e, instr, instruction) == [e |-> [e EXCEPT !.instrs = Append(@, instruction)], ret |-> Ok(instr + 1)]

\* InstrSequence::push_before: Vec::insert at the handle, which panics past the
\* end; returns the handle after it, where the word that was at `instr` now is.
push_before(e, instr, instruction) ==
  IF instr > Len(e.instrs) THEN [e |-> e, ret |-> Panic("insertion index out of bounds")]
  ELSE LET inserted == [e EXCEPT !.instrs = SubSeq(@, 1, instr) \o <<instruction>> \o SubSeq(@, instr + 1, Len(@))]
       IN IF instr + 1 > InstrIndexMax THEN [e |-> inserted, ret |-> Panic("pushed to many instructions to a single function")] ELSE [e |-> inserted, ret |-> Ok(instr + 1)]

\* InstrSequence::drain that yields the words and keeps them.
drain_keeps(e) == [e |-> e, ret |-> Ok(e.instrs)]

\* InstrSequence::drain: yields the words in sequence order and leaves none.
drain(e) == [e |-> [e EXCEPT !.instrs = <<>>], ret |-> Ok(e.instrs)]

\* InstrEncoder::drain_instrs
drain_instrs(e) == drain(e)

\* InstrEncoder::push_instr
push_instr(e, instr) == LET p == push(e, instr) IN IF ~IsOk(p.ret) THEN p ELSE [e |-> [p.e EXCEPT !.last_instr = p.ret.val], ret |-> p.ret]

\* InstrEncoder::append_instr
append_instr(e, instr) == push(e, instr)

(***************************************************************************)
(* Label registry: labels[l] is the pinned target of label l (None while   *)
(* unpinned); users is the list of pending (label, user) pairs.            *)
(***************************************************************************)
LabelUser(label, user) == [label |-> label, user |-> user]

\* BranchOffset::uninit: the offset of a branch whose label is not pinned yet.
uninit == 0

\* InstrEncoder::new_label: the new label is unpinned and has no users.
new_label(e) == [e |-> [e EXCEPT !.labels = Append(@, None)], ret |-> Ok(Len(e.labels) + 1)]

\* pin_label_if_unpinned that pins again: the target of a pinned label is overwritten.
pin_label_if_unpinned_repin(e, label) == [e |-> [e EXCEPT !.labels[label] = next_instr(e)], ret |-> Ok(0)]

\* InstrEncoder::pin_label_if_unpinned: does nothing if the label is already pinned.
pin_label_if_unpinned(e, label) == IF ~IsOk(from_usize(next_instr(e))) THEN [e |-> e, ret |-> from_usize(next_instr(e))] ELSE IF e.labels[label] # None THEN [e |-> e, ret |-> Ok(0)] ELSE [e |-> [e EXCEPT !.labels[label] = next_instr(e)], ret |-> Ok(0)]

\* InstrEncoder::pin_label: panics if the label is already pinned.
pin_label(e, label) == IF ~IsOk(from_usize(next_instr(e))) THEN [e |-> e, ret |-> from_usize(next_instr(e))] ELSE IF e.labels[label] # None THEN [e |-> e, ret |-> Panic("failed to pin label")] ELSE [e |-> [e EXCEPT !.labels[label] = next_instr(e)], ret |-> Ok(0)]

\* InstrEncoder::try_resolve_label_for: the offset from `instr` to the pinned target,
\* or a new pending user and the uninitialized offset 0.
try_resolve_label_for(e, label, instr) == IF e.labels[label] # None THEN [e |-> e, ret |-> Ok(e.labels[label] - instr)] ELSE [e |-> [e EXCEPT !.users = Append(@, LabelUser(label, instr))], ret |-> Ok(uninit)]

\* try_resolve_label with the last pushed instruction as the user.
try_resolve_label_from_last(e, label) == try_resolve_label_for(e, label, next_instr(e) - 1)

\* InstrEncoder::try_resolve_label: the user is the next instruction.
try_resolve_label(e, label) == IF ~IsOk(from_usize(next_instr(e))) THEN [e |-> e, ret |-> from_usize(next_instr(e))] ELSE try_resolve_label_for(e, label, next_instr(e))

(***************************************************************************)
(* Fuel.                                                                   *)
(***************************************************************************)
\* FuelCosts::base
FuelCostsBase == 1
\* Copies charged per unit of fuel by FuelCosts::fuel_for_copies.
CopiesPerFuel == 64
\* FuelCosts::fuel_for_copies
fuel_for_copies(n) == n \div CopiesPerFuel

\* FuelInfo::None / FuelInfo::Some{costs, instr}
FuelNone == [kind |-> "None"]
FuelSome(instr) == [kind |-> "Some", instr |-> instr]

\* InstrEncoder::bump_fuel_consumption: adds `delta` to the ConsumeFuel word at fuel_info.instr.
bump_fuel_consumption(e, fuel_info, delta) == IF fuel_info.kind = "None" THEN [e |-> e, ret |-> Ok(0)] ELSE IF get(e, fuel_info.instr).op # "ConsumeFuel" THEN [e |-> e, ret |-> Panic("not a ConsumeFuel instruction")] ELSE [e |-> set_instr(e, fuel_info.instr, ConsumeFuel(get(e, fuel_info.instr).amount + delta)), ret |-> Ok(0)]

(***************************************************************************)
(* Copy encoder.                                                           *)
(***************************************************************************)
\* InstrEncoder::provider2reg: constants are allocated in the constant pool.
provider2reg(e, provider) == IF provider.kind = "Register" THEN [e |-> e, ret |-> Ok(provider.reg)] ELSE alloc_const(e, provider.value)

\* encode_copy::copy_imm: a copy from a newly allocated constant slot.
copy_imm(e, result, value) == LET a == alloc_const(e, value) IN [e |-> a.e, instr |-> CopyInstr("Copy", result, a.ret.val)]

\* The instruction selected by the match of encode_copy for a copy that is not a no-op.
encode_copy_select(e, result, value) ==
  IF value.kind = "Register" THEN [e |-> e, instr |-> CopyInstr("Copy", result, value.reg)]
  ELSE CASE value.value.ty = "I32" -> [e |-> e, instr |-> CopyInstr("CopyImm32", result, value.value.bits)]
         [] value.value.ty = "F32" -> [e |-> e, instr |-> CopyInstr("CopyImm32", result, value.value.bits)]
         [] value.value.ty = "I64" -> IF FitsI64Imm32(value.value.bits) THEN [e |-> e, instr |-> CopyInstr("CopyI64Imm32", result, SubSeq(value.value.bits, 3, 4))] ELSE copy_imm(e, result, value.value)
         [] value.value.ty = "F64" -> IF FitsF64Imm32(value.value.bits) THEN [e |-> e, instr |-> CopyInstr("CopyF64Imm32", result, F64ToF32(value.value.bits))] ELSE copy_imm(e, result, value.value)
         [] OTHER -> copy_imm(e, result, value.value)

\* encode_copy without the `result == value` test: a copy is encoded for x <- x too.
encode_copy_no_elision(e, result, value, fuel_info) ==
  LET sel == encode_copy_select(e, result, value)
      fuel == bump_fuel_consumption(sel.e, fuel_info, FuelCostsBase)
  IN IF ~IsOk(fuel.ret) THEN fuel ELSE push_instr(fuel.e, sel.instr)

\* InstrEncoder::encode_copy: returns Ok(None) for `copy x <- x`, else Ok(Some(instr)).
encode_copy(e, result, value, fuel_info) ==
  IF value.kind = "Register" /\ result = value.reg THEN [e |-> e, ret |-> Ok(None)]
  ELSE LET sel == encode_copy_select(e, result, value)
           fuel == bump_fuel_consumption(sel.e, fuel_info, FuelCostsBase)
       IN IF ~IsOk(fuel.ret) THEN fuel ELSE push_instr(fuel.e, sel.instr)

\* RegisterSpanIter::from_providers: the head of the register span the values form,
\* None unless all values are registers with consecutive indices.
from_providers(values) == IF values # <<>> /\ (\A i \in DOMAIN values : values[i].kind = "Register") /\ (\A i \in 1 .. (Len(values) - 1) : values[i + 1].reg = next(values[i].reg)) THEN values[1].reg ELSE None

\* RegisterSpanIter::has_overlapping_copies: copying the len registers from values
\* to results one by one, in ascending order, overwrites a register not read yet.
span_has_overlapping_copies(results, values, len) == values < results /\ results < values + len

\* InstrEncoder::has_overlapping_copy_spans
has_overlapping_copy_spans(results, values, len) == span_has_overlapping_copies(results, values, len)

\* The loop of InstrEncoder::has_overlapping_copies over zip(results, values), from
\* the i-th pair on: a register value that lies in result0 .. result returns true
\* at once, the end of the list returns false.
RECURSIVE overlapping_from(_, _, _)
overlapping_from_inclusive(result0, values, i) == IF i > Len(values) THEN FALSE ELSE IF values[i].kind = "Register" /\ result0 <= values[i].reg /\ values[i].reg <= result0 + (i - 1) THEN TRUE ELSE overlapping_from(result0, values, i + 1)

overlapping_from(result0, values, i) == IF i > Len(values) THEN FALSE ELSE IF values[i].kind = "Register" /\ result0 <= values[i].reg /\ values[i].reg < result0 + (i - 1) THEN TRUE ELSE overlapping_from(result0, values, i + 1)

\* has_overlapping_copies that passes over the head of the result span.
has_overlapping_copies_behind_head(results, values) == \E i \in DOMAIN values : values[i].kind = "Register" /\ results < values[i].reg /\ values[i].reg < results + (i - 1)

\* InstrEncoder::has_overlapping_copies: results is the head of the result span,
\* which is as long as values.
has_overlapping_copies(results, values) == IF values = <<>> THEN FALSE ELSE overlapping_from(results, values, 1)

\* encode_register_list whose arm for three providers is the arm for more than
\* three: the chain of a multiple of three providers ends with register_list.
RECURSIVE encode_register_list_open(_, _)
encode_register_list_open(e, inputs) ==
  IF inputs = <<>> THEN [e |-> e, ret |-> Ok(0)]
  ELSE LET r0 == provider2reg(e, inputs[1]) IN
    IF Len(inputs) = 1 THEN [e |-> push(r0.e, RegisterWord("Register", <<r0.ret.val>>)).e, ret |-> Ok(0)]
    ELSE LET r1 == provider2reg(r0.e, inputs[2]) IN
      IF Len(inputs) = 2 THEN [e |-> push(r1.e, RegisterWord("Register2", <<r0.ret.val, r1.ret.val>>)).e, ret |-> Ok(0)]
      ELSE LET r2 == provider2reg(r1.e, inputs[3]) IN
        encode_register_list_open(push(r2.e, RegisterWord("RegisterList", <<r0.ret.val, r1.ret.val, r2.ret.val>>)).e, SubSeq(inputs, 4, Len(inputs)))

\* InstrEncoder::encode_register_list: chunks of three registers, the last word
\* being register, register2 or register3.
RECURSIVE encode_register_list(_, _)
encode_register_list(e, inputs) ==
  IF inputs = <<>> THEN [e |-> e, ret |-> Ok(0)]
  ELSE LET r0 == provider2reg(e, inputs[1]) IN
    IF Len(inputs) = 1 THEN [e |-> push(r0.e, RegisterWord("Register", <<r0.ret.val>>)).e, ret |-> Ok(0)]
    ELSE LET r1 == provider2reg(r0.e, inputs[2]) IN
      IF Len(inputs) = 2 THEN [e |-> push(r1.e, RegisterWord("Register2", <<r0.ret.val, r1.ret.val>>)).e, ret |-> Ok(0)]
      ELSE LET r2 == provider2reg(r1.e, inputs[3]) IN
        IF Len(inputs) = 3 THEN [e |-> push(r2.e, RegisterWord("Register3", <<r0.ret.val, r1.ret.val, r2.ret.val>>)).e, ret |-> Ok(0)]
        ELSE encode_register_list(push(r2.e, RegisterWord("RegisterList", <<r0.ret.val, r1.ret.val, r2.ret.val>>)).e, SubSeq(inputs, 4, Len(inputs)))

\* The arm for two values without the test of the second copy: always a copy2.
encode_copies_2_always_copy2(e, result, values, fuel_info) ==
  LET reg0 == provider2reg(e, values[1])
      reg1 == provider2reg(reg0.e, values[2])
      fuel == bump_fuel_consumption(reg1.e, fuel_info, FuelCostsBase)
  IN IF ~IsOk(fuel.ret) THEN fuel ELSE [e |-> push_instr(fuel.e, CopyRegs("Copy2", result, reg0.ret.val, reg1.ret.val)).e, ret |-> Ok(0)]

\* encode_copies, the arm for exactly two remaining values.
encode_copies_2(e, result, values, fuel_info) ==
  IF Register(next(result)) = values[2] THEN (LET c == encode_copy(e, result, values[1], fuel_info) IN [e |-> c.e, ret |-> IF IsOk(c.ret) THEN Ok(0) ELSE c.ret])
  ELSE LET reg0 == provider2reg(e, values[1])
           reg1 == provider2reg(reg0.e, values[2])
           fuel == bump_fuel_consumption(reg1.e, fuel_info, FuelCostsBase)
       IN IF ~IsOk(fuel.ret) THEN fuel ELSE [e |-> push_instr(fuel.e, CopyRegs("Copy2", result, reg0.ret.val, reg1.ret.val)).e, ret |-> Ok(0)]

\* encode_copies_many with the two span instructions exchanged.
encode_copies_many_swapped(e, result, values, fuel_info) ==
  LET fuel0 == bump_fuel_consumption(e, fuel_info, FuelCostsBase)
      fuel1 == bump_fuel_consumption(fuel0.e, fuel_info, fuel_for_copies((Len(values) - 2) + 3))
      span == from_providers(values)
      reg0 == provider2reg(fuel1.e, values[1])
      reg1 == provider2reg(reg0.e, values[2])
      many == IF has_overlapping_copies(result, values) THEN "CopyMany" ELSE "CopyManyNonOverlapping"
  IN IF ~IsOk(fuel0.ret) THEN fuel0
     ELSE IF span # None THEN [e |-> push_instr(fuel1.e, CopySpan(IF has_overlapping_copy_spans(result, span, Len(values)) THEN "CopySpanNonOverlapping" ELSE "CopySpan", result, span, Len(values))).e, ret |-> Ok(0)]
     ELSE encode_register_list(push_instr(reg1.e, CopyRegs(many, result, reg0.ret.val, reg1.ret.val)).e, SubSeq(values, 3, Len(values)))

\* encode_copies_many that charges the copies of three values more than it is given.
encode_copies_many_three_more(e, result, values, fuel_info) ==
  LET fuel0 == bump_fuel_consumption(e, fuel_info, FuelCostsBase)
      fuel1 == bump_fuel_consumption(fuel0.e, fuel_info, fuel_for_copies(Len(values) + 3))
      span == from_providers(values)
      reg0 == provider2reg(fuel1.e, values[1])
      reg1 == provider2reg(reg0.e, values[2])
      many == IF has_overlapping_copies(result, values) THEN "CopyMany" ELSE "CopyManyNonOverlapping"
  IN IF ~IsOk(fuel0.ret) THEN fuel0
     ELSE IF span # None THEN [e |-> push_instr(fuel1.e, CopySpan(IF has_overlapping_copy_spans(result, span, Len(values)) THEN "CopySpan" ELSE "CopySpanNonOverlapping", result, span, Len(values))).e, ret |-> Ok(0)]
     ELSE encode_register_list(push_instr(reg1.e, CopyRegs(many, result, reg0.ret.val, reg1.ret.val)).e, SubSeq(values, 3, Len(values)))

\* encode_copies, the arm for three or more remaining values.
encode_copies_many(e, result, values, fuel_info) ==
  LET fuel0 == bump_fuel_consumption(e, fuel_info, FuelCostsBase)
      fuel1 == bump_fuel_consumption(fuel0.e, fuel_info, fuel_for_copies((Len(values) - 2) + 3))
      span == from_providers(values)
      reg0 == provider2reg(fuel1.e, values[1])
      reg1 == provider2reg(reg0.e, values[2])
      many == IF has_overlapping_copies(result, values) THEN "CopyMany" ELSE "CopyManyNonOverlapping"
  IN IF ~IsOk(fuel0.ret) THEN fuel0
     ELSE IF span # None THEN [e |-> push_instr(fuel1.e, CopySpan(IF has_overlapping_copy_spans(result, span, Len(values)) THEN "CopySpan" ELSE "CopySpanNonOverlapping", result, span, Len(values))).e, ret |-> Ok(0)]
     ELSE encode_register_list(push_instr(reg1.e, CopyRegs(many, result, reg0.ret.val, reg1.ret.val)).e, SubSeq(values, 3, Len(values)))

\* encode_copies whose peeling step forgets `results.next()`: the destination span is
\* not advanced past a skipped no-op copy.
RECURSIVE encode_copies_no_advance(_, _, _, _)
encode_copies_no_advance(e, results, values, fuel_info) ==
  IF values # <<>> /\ values[1] = Register(results) THEN encode_copies_no_advance(e, results, Tail(values), fuel_info)
  ELSE CASE Len(values) = 0 -> [e |-> e, ret |-> Ok(0)]
         [] Len(values) = 1 -> (LET c == encode_copy(e, results, values[1], fuel_info) IN [e |-> c.e, ret |-> IF IsOk(c.ret) THEN Ok(0) ELSE c.ret])
         [] Len(values) = 2 -> encode_copies_2(e, results, values, fuel_info)
         [] OTHER -> encode_copies_many(e, results, values, fuel_info)

\* InstrEncoder::encode_copies.  `results` is the head of the destination span; its
\* length is that of `values` (asserted on entry).
RECURSIVE encode_copies(_, _, _, _)
encode_copies(e, results, values, fuel_info) ==
  IF values # <<>> /\ values[1] = Register(results) THEN encode_copies(e, next(results), Tail(values), fuel_info)
  ELSE CASE Len(values) = 0 -> [e |-> e, ret |-> Ok(0)]
         [] Len(values) = 1 -> (LET c == encode_copy(e, results, values[1], fuel_info) IN [e |-> c.e, ret |-> IF IsOk(c.ret) THEN Ok(0) ELSE c.ret])
         [] Len(values) = 2 -> encode_copies_2(e, results, values, fuel_info)
         [] OTHER -> encode_copies_many(e, results, values, fuel_info)

(***************************************************************************)
(* Defragmentation of the storage space.                                   *)
(***************************************************************************)
\* ValueStack::defrag_register after finalize_alloc: the registers of the storage
\* space move by the distance `gap` that finalize_alloc fixed, the others stay.
defrag_register(reg, gap) == IF get_register_space(reg) = "Storage" THEN reg + gap ELSE reg

\* Instruction::visit_input_registers with the closure of defrag_registers: every
\* register the word reads is remapped; result registers and immediates are not.
visit_input_registers(word, gap) ==
  LET bin == IF "lhs" \in DOMAIN word THEN [word EXCEPT !.lhs = defrag_register(@, gap), !.rhs = defrag_register(@, gap)] ELSE word
      imm == IF "reg_in" \in DOMAIN bin THEN [bin EXCEPT !.reg_in = defrag_register(@, gap)] ELSE bin
      cond == IF "condition" \in DOMAIN imm THEN [imm EXCEPT !.condition = defrag_register(@, gap)] ELSE imm
      list == IF "regs" \in DOMAIN cond THEN [cond EXCEPT !.regs = [i \in DOMAIN @ |-> defrag_register(@[i], gap)]] ELSE cond
      copy == IF list.op = "Copy" THEN [list EXCEPT !.value = defrag_register(@, gap)] ELSE list
  IN IF "values" \notin DOMAIN copy THEN copy
     ELSE IF "len" \in DOMAIN copy THEN [copy EXCEPT !.values = defrag_register(@, gap)]
     ELSE [copy EXCEPT !.values = [i \in DOMAIN @ |-> defrag_register(@[i], gap)]]

\* defrag_registers that visits every word of the sequence.
defrag_registers_all(e, gap) ==
  IF e.notified_preservation = None THEN [e |-> e, ret |-> Ok(0)]
  ELSE [e |-> [e EXCEPT !.instrs = [i \in DOMAIN e.instrs |-> visit_input_registers(e.instrs[i], gap)]], ret |-> Ok(0)]

\* InstrEncoder::defrag_registers, `gap` being what finalize_alloc fixed; the slice
\* of get_slice_at_mut starts at the notified handle.
defrag_registers(e, gap) ==
  IF e.notified_preservation = None THEN [e |-> e, ret |-> Ok(0)]
  ELSE IF e.notified_preservation > Len(e.instrs) THEN [e |-> e, ret |-> Panic("range start index out of range")]
  ELSE [e |-> [e EXCEPT !.instrs = [i \in DOMAIN e.instrs |-> IF i - 1 >= e.notified_preservation THEN visit_input_registers(e.instrs[i], gap) ELSE e.instrs[i]]], ret |-> Ok(0)]

(***************************************************************************)
(* Return encoder.                                                         *)
(***************************************************************************)
\* The match of encode_return for fewer than four values: the instruction, and the
\* encoder after the constants it needs were allocated.
encode_return_select(e, values) ==
  CASE Len(values) = 0 -> [e |-> e, instr |-> ReturnRegs("Return", <<>>)]
    [] Len(values) = 1 ->
         IF values[1].kind = "Register" THEN [e |-> e, instr |-> ReturnRegs("ReturnReg", <<values[1].reg>>)]
         ELSE LET value == values[1].value
                  a == alloc_const(e, value)
              IN CASE value.ty = "I32" -> [e |-> e, instr |-> ReturnImm("ReturnImm32", value.bits)]
                   [] value.ty = "I64" -> IF FitsI64Imm32(value.bits) THEN [e |-> e, instr |-> ReturnImm("ReturnI64Imm32", SubSeq(value.bits, 3, 4))] ELSE [e |-> a.e, instr |-> ReturnRegs("ReturnReg", <<a.ret.val>>)]
                   [] value.ty = "F32" -> [e |-> e, instr |-> ReturnImm("ReturnImm32", value.bits)]
                   [] value.ty = "F64" -> IF FitsF64Imm32(value.bits) THEN [e |-> e, instr |-> ReturnImm("ReturnF64Imm32", F64ToF32(value.bits))] ELSE [e |-> a.e, instr |-> ReturnRegs("ReturnReg", <<a.ret.val>>)]
                   [] OTHER -> [e |-> a.e, instr |-> ReturnRegs("ReturnReg", <<a.ret.val>>)]
    [] Len(values) = 2 ->
         LET reg0 == provider2reg(e, values[1])
             reg1 == provider2reg(reg0.e, values[2])
         IN [e |-> reg1.e, instr |-> ReturnRegs("ReturnReg2", <<reg0.ret.val, reg1.ret.val>>)]
    [] OTHER ->
         LET reg0 == provider2reg(e, values[1])
             reg1 == provider2reg(reg0.e, values[2])
             reg2 == provider2reg(reg1.e, values[3])
         IN [e |-> reg2.e, instr |-> ReturnRegs("ReturnReg3", <<reg0.ret.val, reg1.ret.val, reg2.ret.val>>)]

\* encode_return that never looks for a register span: four or more values are
\* always a return_many and its register list.
encode_return_no_span(e, values, fuel_info) ==
  IF Len(values) >= 4 THEN
    LET fuel0 == bump_fuel_consumption(e, fuel_info, FuelCostsBase)
        fuel1 == bump_fuel_consumption(fuel0.e, fuel_info, fuel_for_copies((Len(values) - 3) + 3))
        reg0 == provider2reg(fuel1.e, values[1])
        reg1 == provider2reg(reg0.e, values[2])
        reg2 == provider2reg(reg1.e, values[3])
        many == push_instr(reg2.e, ReturnRegs("ReturnMany", <<reg0.ret.val, reg1.ret.val, reg2.ret.val>>))
    IN IF ~IsOk(fuel0.ret) THEN fuel0
       ELSE IF ~IsOk(many.ret) THEN many
       ELSE encode_register_list(many.e, SubSeq(values, 4, Len(values)))
  ELSE
    LET sel == encode_return_select(e, values)
        fuel == bump_fuel_consumption(sel.e, fuel_info, FuelCostsBase)
        p == push_instr(fuel.e, sel.instr)
    IN IF ~IsOk(fuel.ret) THEN fuel ELSE [e |-> p.e, ret |-> IF IsOk(p.ret) THEN Ok(0) ELSE p.ret]

\* InstrEncoder::encode_return
encode_return(e, values, fuel_info) ==
  IF Len(values) >= 4 THEN
    LET fuel0 == bump_fuel_consumption(e, fuel_info, FuelCostsBase)
        fuel1 == bump_fuel_consumption(fuel0.e, fuel_info, fuel_for_copies((Len(values) - 3) + 3))
        span == from_providers(values)
        sp == push_instr(fuel1.e, ReturnSpan("ReturnSpan", span, Len(values)))
        reg0 == provider2reg(fuel1.e, values[1])
        reg1 == provider2reg(reg0.e, values[2])
        reg2 == provider2reg(reg1.e, values[3])
        many == push_instr(reg2.e, ReturnRegs("ReturnMany", <<reg0.ret.val, reg1.ret.val, reg2.ret.val>>))
    IN IF ~IsOk(fuel0.ret) THEN fuel0
       ELSE IF span # None THEN [e |-> sp.e, ret |-> IF IsOk(sp.ret) THEN Ok(0) ELSE sp.ret]
       ELSE IF ~IsOk(many.ret) THEN many
       ELSE encode_register_list(many.e, SubSeq(values, 4, Len(values)))
  ELSE
    LET sel == encode_return_select(e, values)
        fuel == bump_fuel_consumption(sel.e, fuel_info, FuelCostsBase)
        p == push_instr(fuel.e, sel.instr)
    IN IF ~IsOk(fuel.ret) THEN fuel ELSE [e |-> p.e, ret |-> IF IsOk(p.ret) THEN Ok(0) ELSE p.ret]

\* The match of encode_return_nez for fewer than three values.
encode_return_nez_select(e, condition, values) ==
  CASE Len(values) = 0 -> [e |-> e, instr |-> ReturnNezRegs("ReturnNez", condition, <<>>)]
    [] Len(values) = 1 ->
         IF values[1].kind = "Register" THEN [e |-> e, instr |-> ReturnNezRegs("ReturnNezReg", condition, <<values[1].reg>>)]
         ELSE LET value == values[1].value
                  a == alloc_const(e, value)
              IN CASE value.ty = "I32" -> [e |-> e, instr |-> ReturnNezImm("ReturnNezImm32", condition, value.bits)]
                   [] value.ty = "I64" -> IF FitsI64Imm32(value.bits) THEN [e |-> e, instr |-> ReturnNezImm("ReturnNezI64Imm32", condition, SubSeq(value.bits, 3, 4))] ELSE [e |-> a.e, instr |-> ReturnNezRegs("ReturnNezReg", condition, <<a.ret.val>>)]
                   [] value.ty = "F32" -> [e |-> e, instr |-> ReturnNezImm("ReturnNezImm32", condition, value.bits)]
                   [] value.ty = "F64" -> IF FitsF64Imm32(value.bits) THEN [e |-> e, instr |-> ReturnNezImm("ReturnNezF64Imm32", condition, F64ToF32(value.bits))] ELSE [e |-> a.e, instr |-> ReturnNezRegs("ReturnNezReg", condition, <<a.ret.val>>)]
                   [] OTHER -> [e |-> a.e, instr |-> ReturnNezRegs("ReturnNezReg", condition, <<a.ret.val>>)]
    [] OTHER ->
         LET reg0 == provider2reg(e, values[1])
             reg1 == provider2reg(reg0.e, values[2])
         IN [e |-> reg1.e, instr |-> ReturnNezRegs("ReturnNezReg2", condition, <<reg0.ret.val, reg1.ret.val>>)]

\* encode_return_nez whose register list starts after a third value, as that of
\* encode_return does: the third value is encoded nowhere.
encode_return_nez_tail_from_3(e, condition, values, fuel_info) ==
  IF Len(values) >= 3 THEN
    LET fuel0 == bump_fuel_consumption(e, fuel_info, FuelCostsBase)
        fuel1 == bump_fuel_consumption(fuel0.e, fuel_info, fuel_for_copies((Len(values) - 2) + 3))
        span == from_providers(values)
        sp == push_instr(fuel1.e, ReturnNezSpan("ReturnNezSpan", condition, span, Len(values)))
        reg0 == provider2reg(fuel1.e, values[1])
        reg1 == provider2reg(reg0.e, values[2])
        many == push_instr(reg1.e, ReturnNezRegs("ReturnNezMany", condition, <<reg0.ret.val, reg1.ret.val>>))
    IN IF ~IsOk(fuel0.ret) THEN fuel0
       ELSE IF span # None THEN [e |-> sp.e, ret |-> IF IsOk(sp.ret) THEN Ok(0) ELSE sp.ret]
       ELSE IF ~IsOk(many.ret) THEN many
       ELSE encode_register_list(many.e, SubSeq(values, 4, Len(values)))
  ELSE
    LET sel == encode_return_nez_select(e, condition, values)
        fuel == bump_fuel_consumption(sel.e, fuel_info, FuelCostsBase)
        p == push_instr(fuel.e, sel.instr)
    IN IF ~IsOk(fuel.ret) THEN fuel ELSE [e |-> p.e, ret |-> IF IsOk(p.ret) THEN Ok(0) ELSE p.ret]

\* InstrEncoder::encode_return_nez
encode_return_nez(e, condition, values, fuel_info) ==
  IF Len(values) >= 3 THEN
    LET fuel0 == bump_fuel_consumption(e, fuel_info, FuelCostsBase)
        fuel1 == bump_fuel_consumption(fuel0.e, fuel_info, fuel_for_copies((Len(values) - 2) + 3))
        span == from_providers(values)
        sp == push_instr(fuel1.e, ReturnNezSpan("ReturnNezSpan", condition, span, Len(values)))
        reg0 == provider2reg(fuel1.e, values[1])
        reg1 == provider2reg(reg0.e, values[2])
        many == push_instr(reg1.e, ReturnNezRegs("ReturnNezMany", condition, <<reg0.ret.val, reg1.ret.val>>))
    IN IF ~IsOk(fuel0.ret) THEN fuel0
       ELSE IF span # None THEN [e |-> sp.e, ret |-> IF IsOk(sp.ret) THEN Ok(0) ELSE sp.ret]
       ELSE IF ~IsOk(many.ret) THEN many
       ELSE encode_register_list(many.e, SubSeq(values, 3, Len(values)))
  ELSE
    LET sel == encode_return_nez_select(e, condition, values)
        fuel == bump_fuel_consumption(sel.e, fuel_info, FuelCostsBase)
        p == push_instr(fuel.e, sel.instr)
    IN IF ~IsOk(fuel.ret) THEN fuel ELSE [e |-> p.e, ret |-> IF IsOk(p.ret) THEN Ok(0) ELSE p.ret]

(***************************************************************************)
(* local.set and local.tee.                                                *)
(***************************************************************************)
\* Instruction::relink_result: the word with its result register swapped from
\* old_result to new_result, and whether the word accepted the swap.
relink_result(word, new_result, old_result) == IF "result" \in DOMAIN word /\ word.result = old_result THEN [instr |-> [word EXCEPT !.result = new_result], ret |-> Ok(1)] ELSE [instr |-> word, ret |-> Ok(0)]

\* notify_preserved_register in which a later notification replaces the recorded one.
notify_preserved_register_last(e, preserve_instr) == IF get(e, preserve_instr).op # "Copy" THEN [e |-> e, ret |-> Panic("a preserve instruction is always a register copy instruction")] ELSE [e |-> [e EXCEPT !.notified_preservation = preserve_instr], ret |-> Ok(0)]

\* InstrEncoder::notify_preserved_register, with its debug assertion.
notify_preserved_register(e, preserve_instr) == IF get(e, preserve_instr).op # "Copy" THEN [e |-> e, ret |-> Panic("a preserve instruction is always a register copy instruction")] ELSE [e |-> IF e.notified_preservation = None THEN [e EXCEPT !.notified_preservation = preserve_instr] ELSE e, ret |-> Ok(0)]

\* The outcome of encode_local_set: the new state and the result, with the handles
\* passed to notify_preserved_register and the handle passed to push_before (None
\* if it was not called).
LocalSet(e, r, notified, before) == [e |-> e, ret |-> r, notified |-> notified, before |-> before]

\* fallback_case that copies the value to the local before it preserves the local.
fallback_case_copy_first(e, local, value, preserved, fuel_info) ==
  LET copy == encode_copy(e, local, value, fuel_info)
      fuel == bump_fuel_consumption(copy.e, fuel_info, FuelCostsBase)
      preserve_instr == push_instr(fuel.e, CopyInstr("Copy", preserved, local))
      notify == notify_preserved_register(preserve_instr.e, preserve_instr.ret.val)
  IN IF ~IsOk(copy.ret) THEN LocalSet(copy.e, copy.ret, <<>>, None)
     ELSE IF preserved = None THEN LocalSet(copy.e, Ok(0), <<>>, None)
     ELSE LocalSet(notify.e, Ok(0), <<preserve_instr.ret.val>>, None)

\* fallback_case of encode_local_set: the preservation copy, then the copy to the local.
fallback_case(e, local, value, preserved, fuel_info) ==
  LET fuel == bump_fuel_consumption(e, fuel_info, FuelCostsBase)
      preserve_instr == push_instr(fuel.e, CopyInstr("Copy", preserved, local))
      notify == notify_preserved_register(preserve_instr.e, preserve_instr.ret.val)
      copy == encode_copy(IF preserved # None THEN notify.e ELSE e, local, value, fuel_info)
  IN IF preserved # None /\ ~IsOk(fuel.ret) THEN LocalSet(fuel.e, fuel.ret, <<>>, None)
     ELSE IF preserved # None /\ ~IsOk(preserve_instr.ret) THEN LocalSet(preserve_instr.e, preserve_instr.ret, <<>>, None)
     ELSE IF preserved # None /\ ~IsOk(notify.ret) THEN LocalSet(notify.e, notify.ret, <<preserve_instr.ret.val>>, None)
     ELSE LocalSet(copy.e, IF IsOk(copy.ret) THEN Ok(0) ELSE copy.ret, IF preserved # None THEN <<preserve_instr.ret.val>> ELSE <<>>, None)

\* encode_local_set that notifies the preservation at the shifted handle.
encode_local_set_notify_shifted(e, local, value, preserved, fuel_info) ==
  LET fallback == fallback_case(e, local, value, preserved, fuel_info)
      returned_value == value.reg
      last == e.last_instr
      relink == relink_result(get(e, last), local, returned_value)
      relinked == set_instr(e, last, relink.instr)
      fuel == bump_fuel_consumption(relinked, fuel_info, FuelCostsBase)
      shifted_last_instr == push_before(fuel.e, last, CopyInstr("Copy", preserved, local))
      notify == notify_preserved_register(shifted_last_instr.e, shifted_last_instr.ret.val)
  IN IF value.kind # "Register" THEN fallback
     ELSE IF get_register_space(returned_value) = "Local" THEN fallback
     ELSE IF last = None THEN fallback
     ELSE IF preserved # None /\ distance(last, next_instr(e)) >= 4 THEN fallback
     ELSE IF last >= Len(e.instrs) THEN LocalSet(e, Panic("index out of bounds"), <<>>, None)
     ELSE IF relink.ret # Ok(1) THEN fallback
     ELSE IF preserved = None THEN LocalSet(relinked, Ok(0), <<>>, None)
     ELSE IF ~IsOk(fuel.ret) THEN LocalSet(fuel.e, fuel.ret, <<>>, None)
     ELSE IF ~IsOk(shifted_last_instr.ret) THEN LocalSet(shifted_last_instr.e, shifted_last_instr.ret, <<>>, last)
     ELSE IF ~IsOk(notify.ret) THEN LocalSet(notify.e, notify.ret, <<shifted_last_instr.ret.val>>, last)
     ELSE LocalSet([notify.e EXCEPT !.last_instr = shifted_last_instr.ret.val], Ok(0), <<shifted_last_instr.ret.val>>, last)

\* InstrEncoder::encode_local_set.  `preserved` is None or the register that keeps
\* the old value of the local.
encode_local_set(e, local, value, preserved, fuel_info) ==
  LET fallback == fallback_case(e, local, value, preserved, fuel_info)
      returned_value == value.reg
      last == e.last_instr
      relink == relink_result(get(e, last), local, returned_value)
      relinked == set_instr(e, last, relink.instr)
      fuel == bump_fuel_consumption(relinked, fuel_info, FuelCostsBase)
      shifted_last_instr == push_before(fuel.e, last, CopyInstr("Copy", preserved, local))
      notify == notify_preserved_register(shifted_last_instr.e, last)
  IN IF value.kind # "Register" THEN fallback
     ELSE IF get_register_space(returned_value) = "Local" THEN fallback
     ELSE IF last = None THEN fallback
     ELSE IF preserved # None /\ distance(last, next_instr(e)) >= 4 THEN fallback
     ELSE IF last >= Len(e.instrs) THEN LocalSet(e, Panic("index out of bounds"), <<>>, None)
     ELSE IF relink.ret # Ok(1) THEN fallback
     ELSE IF preserved = None THEN LocalSet(relinked, Ok(0), <<>>, None)
     ELSE IF ~IsOk(fuel.ret) THEN LocalSet(fuel.e, fuel.ret, <<>>, None)
     ELSE IF ~IsOk(shifted_last_instr.ret) THEN LocalSet(shifted_last_instr.e, shifted_last_instr.ret, <<>>, last)
     ELSE IF ~IsOk(notify.ret) THEN LocalSet(notify.e, notify.ret, <<last>>, last)
     ELSE LocalSet([notify.e EXCEPT !.last_instr = shifted_last_instr.ret.val], Ok(0), <<last>>, last)

(***************************************************************************)
(* Compare and branch fusion.                                              *)
(***************************************************************************)
\* BranchOffset16::new / BranchOffset16::try_from succeed: the offset is an i16,
\* whose range is -(OffsetMax + 1) .. OffsetMax.
FitsOffset16(offset) == offset >= 0 - (OffsetMax + 1) /\ offset <= OffsetMax

\* Instruction::branch_i32_eqz and its siblings: a branch on a comparison of the
\* condition register with the immediate zero.
branch_i32_eqz(condition, offset) == BranchBinOpInstrImm16("BranchI32EqImm", condition, 0, offset)
branch_i32_nez(condition, offset) == BranchBinOpInstrImm16("BranchI32NeImm", condition, 0, offset)
branch_i64_eqz(condition, offset) == BranchBinOpInstrImm16("BranchI64EqImm", condition, 0, offset)
branch_i64_nez(condition, offset) == BranchBinOpInstrImm16("BranchI64NeImm", condition, 0, offset)

\* Option::<Instruction>: the empty sequence is None, <<w>> is Some(w).
NoInstr(e, r) == [e |-> e, ret |-> r, instr |-> <<>>]
SomeInstr(e, w) == [e |-> e, ret |-> Ok(0), instr |-> <<w>>]

\* fuse without the test of the result's register space.
fuse_no_local_check(e, last, instr, label, make_instr) ==
  LET r == try_resolve_label_for(e, label, last) IN
    IF ~IsOk(r.ret) THEN NoInstr(r.e, r.ret)
    ELSE IF FitsOffset16(r.ret.val) THEN SomeInstr(r.e, BranchBinOpInstr(make_instr, instr.lhs, instr.rhs, r.ret.val))
    ELSE NoInstr(r.e, Ok(0))

\* encode_branch_eqz::fuse and encode_branch_nez::fuse: the same code in both.
fuse(e, last, instr, label, make_instr) ==
  IF get_register_space(instr.result) = "Local" THEN NoInstr(e, Ok(0))
  ELSE LET r == try_resolve_label_for(e, label, last) IN
    IF ~IsOk(r.ret) THEN NoInstr(r.e, r.ret)
    ELSE IF FitsOffset16(r.ret.val) THEN SomeInstr(r.e, BranchBinOpInstr(make_instr, instr.lhs, instr.rhs, r.ret.val))
    ELSE NoInstr(r.e, Ok(0))

\* encode_branch_eqz::fuse_imm and encode_branch_nez::fuse_imm.
fuse_imm(e, last, instr, label, make_instr) ==
  IF get_register_space(instr.result) = "Local" THEN NoInstr(e, Ok(0))
  ELSE LET r == try_resolve_label_for(e, label, last) IN
    IF ~IsOk(r.ret) THEN NoInstr(r.e, r.ret)
    ELSE IF FitsOffset16(r.ret.val) THEN SomeInstr(r.e, BranchBinOpInstrImm16(make_instr, instr.reg_in, instr.imm_in, r.ret.val))
    ELSE NoInstr(r.e, Ok(0))

\* The arms for a zero immediate with an offset that is no i16 handled as fuse_imm
\* handles it: no fused instruction, which leads to the fallback.
fuse_zero_falls_back(e, last, instr, label, make_instr) ==
  IF get_register_space(instr.result) = "Local" THEN NoInstr(e, Ok(0))
  ELSE LET r == try_resolve_label_for(e, label, last) IN
    IF ~IsOk(r.ret) THEN NoInstr(r.e, r.ret)
    ELSE IF FitsOffset16(r.ret.val) THEN SomeInstr(r.e, BranchBinOpInstrImm16(make_instr, instr.reg_in, 0, r.ret.val))
    ELSE NoInstr(r.e, Ok(0))

\* The arms for I32EqImm16, I64EqImm16, I32NeImm16 and I64NeImm16 with a zero
\* immediate: an offset that is no i16 is an error, not a fallback.
fuse_zero(e, last, instr, label, make_instr) ==
  IF get_register_space(instr.result) = "Local" THEN NoInstr(e, Ok(0))
  ELSE LET r == try_resolve_label_for(e, label, last) IN
    IF ~IsOk(r.ret) THEN NoInstr(r.e, r.ret)
    ELSE IF FitsOffset16(r.ret.val) THEN SomeInstr(r.e, BranchBinOpInstrImm16(make_instr, instr.reg_in, 0, r.ret.val))
    ELSE NoInstr(r.e, Err("BranchOffsetOutOfBounds"))

\* encode_branch_eqz_fallback / encode_branch_nez_fallback: the unfused branch
\* `make_instr` (BranchI32EqImm for eqz, BranchI32NeImm for nez) on `condition`.
encode_branch_fallback(e, make_instr, condition, label) ==
  LET r == try_resolve_label(e, label) IN
    IF ~IsOk(r.ret) THEN [e |-> r.e, ret |-> r.ret]
    ELSE IF ~FitsOffset16(r.ret.val) THEN [e |-> r.e, ret |-> Err("BranchOffsetOutOfBounds")]
    ELSE LET p == push_instr(r.e, BranchBinOpInstrImm16(make_instr, condition, 0, r.ret.val)) IN [e |-> p.e, ret |-> IF IsOk(p.ret) THEN Ok(0) ELSE p.ret]

\* The arms of encode_branch_eqz for a zero immediate without the negation.
EqzZeroNotNegated == [I32EqImm16 |-> "BranchI32EqImm", I64EqImm16 |-> "BranchI64EqImm", I32NeImm16 |-> "BranchI32NeImm", I64NeImm16 |-> "BranchI64NeImm"]

\* encode_branch_eqz: the arms for a zero immediate (branch_i32_nez, branch_i64_nez,
\* branch_i32_eqz, branch_i64_eqz on the compared register).
EqzZero == [I32EqImm16 |-> "BranchI32NeImm", I64EqImm16 |-> "BranchI64NeImm", I32NeImm16 |-> "BranchI32EqImm", I64NeImm16 |-> "BranchI64EqImm"]
\* encode_branch_nez: the arms for a zero immediate.
NezZero == [I32EqImm16 |-> "BranchI32EqImm", I64EqImm16 |-> "BranchI64EqImm", I32NeImm16 |-> "BranchI32NeImm", I64NeImm16 |-> "BranchI64NeImm"]
\* encode_branch_eqz: the rows of the match that call fuse, last opcode |-> fused branch.
EqzFuse == [I32And |-> "BranchI32AndEqz", I32Or |-> "BranchI32OrEqz", I32Xor |-> "BranchI32XorEqz", I32AndEqz |-> "BranchI32And", I32OrEqz |-> "BranchI32Or", I32XorEqz |-> "BranchI32Xor", I32Eq |-> "BranchI32Ne", I32Ne |-> "BranchI32Eq", I32LtS |-> "BranchI32GeS", I32LtU |-> "BranchI32GeU", I32LeS |-> "BranchI32GtS", I32LeU |-> "BranchI32GtU", I32GtS |-> "BranchI32LeS", I32GtU |-> "BranchI32LeU", I32GeS |-> "BranchI32LtS", I32GeU |-> "BranchI32LtU", I64Eq |-> "BranchI64Ne", I64Ne |-> "BranchI64Eq", I64LtS |-> "BranchI64GeS", I64LtU |-> "BranchI64GeU", I64LeS |-> "BranchI64GtS", I64LeU |-> "BranchI64GtU", I64GtS |-> "BranchI64LeS", I64GtU |-> "BranchI64LeU", I64GeS |-> "BranchI64LtS", I64GeU |-> "BranchI64LtU", F32Eq |-> "BranchF32Ne", F32Ne |-> "BranchF32Eq"]
\* encode_branch_eqz: the rows of the match that call fuse_imm.
EqzFuseImm == [I32AndImm16 |-> "BranchI32AndEqzImm", I32OrImm16 |-> "BranchI32OrEqzImm", I32XorImm16 |-> "BranchI32XorEqzImm", I32AndEqzImm16 |-> "BranchI32AndImm", I32OrEqzImm16 |-> "BranchI32OrImm", I32XorEqzImm16 |-> "BranchI32XorImm", I32EqImm16 |-> "BranchI32NeImm", I32NeImm16 |-> "BranchI32EqImm", I32LtSImm16 |-> "BranchI32GeSImm", I32LtUImm16 |-> "BranchI32GeUImm", I32LeSImm16 |-> "BranchI32GtSImm", I32LeUImm16 |-> "BranchI32GtUImm", I32GtSImm16 |-> "BranchI32LeSImm", I32GtUImm16 |-> "BranchI32LeUImm", I32GeSImm16 |-> "BranchI32LtSImm", I32GeUImm16 |-> "BranchI32LtUImm", I64EqImm16 |-> "BranchI64NeImm", I64NeImm16 |-> "BranchI64EqImm", I64LtSImm16 |-> "BranchI64GeSImm", I64LtUImm16 |-> "BranchI64GeUImm", I64LeSImm16 |-> "BranchI64GtSImm", I64LeUImm16 |-> "BranchI64GtUImm", I64GtSImm16 |-> "BranchI64LeSImm", I64GtUImm16 |-> "BranchI64LeUImm", I64GeSImm16 |-> "BranchI64LtSImm", I64GeUImm16 |-> "BranchI64LtUImm"]
\* encode_branch_nez: the rows of the match that call fuse.
NezFuse == [I32And |-> "BranchI32And", I32Or |-> "BranchI32Or", I32Xor |-> "BranchI32Xor", I32AndEqz |-> "BranchI32AndEqz", I32OrEqz |-> "BranchI32OrEqz", I32XorEqz |-> "BranchI32XorEqz", I32Eq |-> "BranchI32Eq", I32Ne |-> "BranchI32Ne", I32LtS |-> "BranchI32LtS", I32LtU |-> "BranchI32LtU", I32LeS |-> "BranchI32LeS", I32LeU |-> "BranchI32LeU", I32GtS |-> "BranchI32GtS", I32GtU |-> "BranchI32GtU", I32GeS |-> "BranchI32GeS", I32GeU |-> "BranchI32GeU", I64Eq |-> "BranchI64Eq", I64Ne |-> "BranchI64Ne", I64LtS |-> "BranchI64LtS", I64LtU |-> "BranchI64LtU", I64LeS |-> "BranchI64LeS", I64LeU |-> "BranchI64LeU", I64GtS |-> "BranchI64GtS", I64GtU |-> "BranchI64GtU", I64GeS |-> "BranchI64GeS", I64GeU |-> "BranchI64GeU", F32Eq |-> "BranchF32Eq", F32Ne |-> "BranchF32Ne", F32Lt |-> "BranchF32Lt", F32Le |-> "BranchF32Le", F32Gt |-> "BranchF32Gt", F32Ge |-> "BranchF32Ge", F64Eq |-> "BranchF64Eq", F64Ne |-> "BranchF64Ne", F64Lt |-> "BranchF64Lt", F64Le |-> "BranchF64Le", F64Gt |-> "BranchF64Gt", F64Ge |-> "BranchF64Ge"]
\* encode_branch_nez: the rows of the match that call fuse_imm.
NezFuseImm == [I32AndImm16 |-> "BranchI32AndImm", I32OrImm16 |-> "BranchI32OrImm", I32XorImm16 |-> "BranchI32XorImm", I32AndEqzImm16 |-> "BranchI32AndEqzImm", I32OrEqzImm16 |-> "BranchI32OrEqzImm", I32XorEqzImm16 |-> "BranchI32XorEqzImm", I32EqImm16 |-> "BranchI32EqImm", I32NeImm16 |-> "BranchI32NeImm", I32LtSImm16 |-> "BranchI32LtSImm", I32LtUImm16 |-> "BranchI32LtUImm", I32LeSImm16 |-> "BranchI32LeSImm", I32LeUImm16 |-> "BranchI32LeUImm", I32GtSImm16 |-> "BranchI32GtSImm", I32GtUImm16 |-> "BranchI32GtUImm", I32GeSImm16 |-> "BranchI32GeSImm", I32GeUImm16 |-> "BranchI32GeUImm", I64EqImm16 |-> "BranchI64EqImm", I64NeImm16 |-> "BranchI64NeImm", I64LtSImm16 |-> "BranchI64LtSImm", I64LtUImm16 |-> "BranchI64LtUImm", I64LeSImm16 |-> "BranchI64LeSImm", I64LeUImm16 |-> "BranchI64LeUImm", I64GtSImm16 |-> "BranchI64GtSImm", I64GtUImm16 |-> "BranchI64GtUImm", I64GeSImm16 |-> "BranchI64GeSImm", I64GeUImm16 |-> "BranchI64GeUImm"]

\* The match on the last instruction of encode_branch_eqz / encode_branch_nez with
\* its three tables: the fused instruction, if any.
fuse_match(e, last, label, zero, reg, imm) ==
  LET instr == get(e, last) IN
    IF instr.op \in DOMAIN zero /\ instr.imm_in = 0 THEN fuse_zero(e, last, instr, label, zero[instr.op])
    ELSE IF instr.op \in DOMAIN reg THEN fuse(e, last, instr, label, reg[instr.op])
    ELSE IF instr.op \in DOMAIN imm THEN fuse_imm(e, last, instr, label, imm[instr.op])
    ELSE NoInstr(e, Ok(0))

\* The body with the fused instruction pushed after the last instruction instead of
\* written over it.
encode_branch_push_fused(e, condition, label, zero, reg, imm, unfused) ==
  IF e.last_instr = None THEN encode_branch_fallback(e, unfused, condition, label)
  ELSE LET f == fuse_match(e, e.last_instr, label, zero, reg, imm) IN
    IF ~IsOk(f.ret) THEN [e |-> f.e, ret |-> f.ret]
    ELSE IF f.instr # <<>> THEN [e |-> push_instr(f.e, f.instr[1]).e, ret |-> Ok(0)]
    ELSE encode_branch_fallback(f.e, unfused, condition, label)

\* The body shared by encode_branch_eqz and encode_branch_nez: fuse with the last
\* instruction in place, or fall back to the unfused branch.
encode_branch(e, condition, label, zero, reg, imm, unfused) ==
  IF e.last_instr = None THEN encode_branch_fallback(e, unfused, condition, label)
  ELSE LET f == fuse_match(e, e.last_instr, label, zero, reg, imm) IN
    IF ~IsOk(f.ret) THEN [e |-> f.e, ret |-> f.ret]
    ELSE IF f.instr # <<>> THEN [e |-> set_instr(f.e, e.last_instr, f.instr[1]), ret |-> Ok(0)]
    ELSE encode_branch_fallback(f.e, unfused, condition, label)

\* encode_branch_eqz with the tables of encode_branch_nez: the comparison is fused
\* without being negated.
encode_branch_eqz_not_negated(e, condition, label) == encode_branch(e, condition, label, NezZero, NezFuse, NezFuseImm, "BranchI32EqImm")

\* encode_branch_eqz with rows that fuse the ordered float comparisons into their
\* opposites, as the rows for the integer comparisons do.
encode_branch_eqz_float_order(e, condition, label) == encode_branch(e, condition, label, EqzZero, [F32Lt |-> "BranchF32Ge", F32Le |-> "BranchF32Gt", F32Gt |-> "BranchF32Le", F32Ge |-> "BranchF32Lt", F64Lt |-> "BranchF64Ge", F64Le |-> "BranchF64Gt", F64Gt |-> "BranchF64Le", F64Ge |-> "BranchF64Lt"] @@ EqzFuse, EqzFuseImm, "BranchI32EqImm")

\* InstrEncoder::encode_branch_eqz
encode_branch_eqz(e, condition, label) == encode_branch(e, condition, label, EqzZero, EqzFuse, EqzFuseImm, "BranchI32EqImm")

\* InstrEncoder::encode_branch_nez
encode_branch_nez(e, condition, label) == encode_branch(e, condition, label, NezZero, NezFuse, NezFuseImm, "BranchI32NeImm")

(***************************************************************************)
(* Fusion of i32.eqz with the last instruction.                            *)
(***************************************************************************)
\* fuse_i32_eqz: the arms of the match, last opcode |-> constructor of the fused
\* instruction (i32_and_eqz, i32_or_eqz, i32_xor_eqz and their imm16 forms).
I32EqzFuse == [I32And |-> "I32AndEqz", I32Or |-> "I32OrEqz", I32Xor |-> "I32XorEqz"]
I32EqzFuseImm16 == [I32AndImm16 |-> "I32AndEqzImm16", I32OrImm16 |-> "I32OrEqzImm16", I32XorImm16 |-> "I32XorEqzImm16"]

\* fuse_i32_eqz without the test of the result's register space.
fuse_i32_eqz_any_space(e) ==
  IF e.last_instr = None THEN [e |-> e, ret |-> Ok(0)]
  ELSE LET instr == get(e, e.last_instr) IN
    IF instr.op \in DOMAIN I32EqzFuse THEN [e |-> set_instr(e, e.last_instr, BinInstr(I32EqzFuse[instr.op], instr.result, instr.lhs, instr.rhs)), ret |-> Ok(1)]
    ELSE IF instr.op \in DOMAIN I32EqzFuseImm16 THEN [e |-> set_instr(e, e.last_instr, BinInstrImm16(I32EqzFuseImm16[instr.op], instr.result, instr.reg_in, instr.imm_in)), ret |-> Ok(1)]
    ELSE [e |-> e, ret |-> Ok(0)]

\* fuse_i32_eqz that takes the word at the end of the sequence for the last
\* instruction when none is recorded.
fuse_i32_eqz_last_word(e) ==
  IF e.instrs = <<>> THEN [e |-> e, ret |-> Ok(0)]
  ELSE LET at == IF e.last_instr = None THEN next_instr(e) - 1 ELSE e.last_instr
           instr == get(e, at) IN
    IF instr.op \in DOMAIN I32EqzFuse /\ get_register_space(instr.result) # "Local" THEN [e |-> set_instr(e, at, BinInstr(I32EqzFuse[instr.op], instr.result, instr.lhs, instr.rhs)), ret |-> Ok(1)]
    ELSE [e |-> e, ret |-> Ok(0)]

\* InstrEncoder::fuse_i32_eqz; the returned bool is Ok(1) for true, Ok(0) for false.
fuse_i32_eqz(e) ==
  IF e.last_instr = None THEN [e |-> e, ret |-> Ok(0)]
  ELSE LET instr == get(e, e.last_instr) IN
    IF instr.op \in DOMAIN I32EqzFuse THEN
      IF get_register_space(instr.result) = "Local" THEN [e |-> e, ret |-> Ok(0)]
      ELSE [e |-> set_instr(e, e.last_instr, BinInstr(I32EqzFuse[instr.op], instr.result, instr.lhs, instr.rhs)), ret |-> Ok(1)]
    ELSE IF instr.op \in DOMAIN I32EqzFuseImm16 THEN
      IF get_register_space(instr.result) = "Local" THEN [e |-> e, ret |-> Ok(0)]
      ELSE [e |-> set_instr(e, e.last_instr, BinInstrImm16(I32EqzFuseImm16[instr.op], instr.result, instr.reg_in, instr.imm_in)), ret |-> Ok(1)]
    ELSE [e |-> e, ret |-> Ok(0)]

(***************************************************************************)
(* Branch offset update.                                                   *)
(***************************************************************************)
\* The variants of Instruction::update_branch_offset that carry a 16-bit offset.
BranchOps16 == {"BranchI32And", "BranchI32Or", "BranchI32Xor", "BranchI32AndEqz", "BranchI32OrEqz", "BranchI32XorEqz", "BranchI32Eq", "BranchI32Ne", "BranchI32LtS", "BranchI32LtU", "BranchI32LeS", "BranchI32LeU", "BranchI32GtS", "BranchI32GtU", "BranchI32GeS", "BranchI32GeU", "BranchI64Eq", "BranchI64Ne", "BranchI64LtS", "BranchI64LtU", "BranchI64LeS", "BranchI64LeU", "BranchI64GtS", "BranchI64GtU", "BranchI64GeS", "BranchI64GeU", "BranchF32Eq", "BranchF32Ne", "BranchF32Lt", "BranchF32Le", "BranchF32Gt", "BranchF32Ge", "BranchF64Eq", "BranchF64Ne", "BranchF64Lt", "BranchF64Le", "BranchF64Gt", "BranchF64Ge", "BranchI32AndImm", "BranchI32OrImm", "BranchI32XorImm", "BranchI32AndEqzImm", "BranchI32OrEqzImm", "BranchI32XorEqzImm", "BranchI32EqImm", "BranchI32NeImm", "BranchI32LtSImm", "BranchI32LeSImm", "BranchI32GtSImm", "BranchI32GeSImm", "BranchI32LtUImm", "BranchI32LeUImm", "BranchI32GtUImm", "BranchI32GeUImm", "BranchI64EqImm", "BranchI64NeImm", "BranchI64LtSImm", "BranchI64LeSImm", "BranchI64GtSImm", "BranchI64GeSImm", "BranchI64LtUImm", "BranchI64LeUImm", "BranchI64GtUImm", "BranchI64GeUImm"}

\* Instruction::update_branch_offset
update_branch_offset(word, new_offset) ==
  IF word.op = "Branch" THEN [instr |-> [word EXCEPT !.offset = new_offset], ret |-> Ok(0)]
  ELSE IF word.op \in BranchOps16 THEN (IF FitsOffset16(new_offset) THEN [instr |-> [word EXCEPT !.offset = new_offset], ret |-> Ok(0)] ELSE [instr |-> word, ret |-> Err("BranchOffsetOutOfBounds")])
  ELSE [instr |-> word, ret |-> Panic("tried to update branch offset of a non-branch instruction")]

\* The loop with the offset computed from the target to the user.
RECURSIVE update_users_reversed(_, _)
update_users_reversed(e, i) ==
  IF i > Len(e.users) THEN [e |-> e, ret |-> Ok(0)]
  ELSE LET user == e.users[i].user
           target == e.labels[e.users[i].label]
       IN IF target = None THEN [e |-> e, ret |-> Panic("failed to resolve user")]
          ELSE IF user >= Len(e.instrs) THEN [e |-> e, ret |-> Panic("index out of bounds")]
          ELSE LET upd == update_branch_offset(get(e, user), user - target) IN
            IF ~IsOk(upd.ret) THEN [e |-> e, ret |-> upd.ret]
            ELSE update_users_reversed(set_instr(e, user, upd.instr), i + 1)

\* The loop that passes over a user whose label is not pinned.
RECURSIVE update_users_skip_unpinned(_, _)
update_users_skip_unpinned(e, i) ==
  IF i > Len(e.users) THEN [e |-> e, ret |-> Ok(0)]
  ELSE LET user == e.users[i].user
           target == e.labels[e.users[i].label]
       IN IF target = None THEN update_users_skip_unpinned(e, i + 1)
          ELSE IF user >= Len(e.instrs) THEN [e |-> e, ret |-> Panic("index out of bounds")]
          ELSE LET upd == update_branch_offset(get(e, user), target - user) IN
            IF ~IsOk(upd.ret) THEN [e |-> e, ret |-> upd.ret]
            ELSE update_users_skip_unpinned(set_instr(e, user, upd.instr), i + 1)

\* The loop of update_branch_offsets from pending user i on.  As the `# Panics`
\* section of update_branch_offsets documents, a user whose label is not pinned is a
\* panic; so is a user handle out of bounds.
RECURSIVE update_users(_, _)
update_users(e, i) ==
  IF i > Len(e.users) THEN [e |-> e, ret |-> Ok(0)]
  ELSE LET user == e.users[i].user
           target == e.labels[e.users[i].label]
       IN IF target = None THEN [e |-> e, ret |-> Panic("failed to resolve user")]
          ELSE IF user >= Len(e.instrs) THEN [e |-> e, ret |-> Panic("index out of bounds")]
          ELSE LET upd == update_branch_offset(get(e, user), target - user) IN
            IF ~IsOk(upd.ret) THEN [e |-> e, ret |-> upd.ret]
            ELSE update_users(set_instr(e, user, upd.instr), i + 1)

\* InstrEncoder::update_branch_offsets
update_branch_offsets(e) == update_users(e, 1)

(***************************************************************************)
(* Execution of comparisons and fused branches on bit patterns.            *)
(***************************************************************************)
\* The relation each 32-bit comparison or branch opcode evaluates.
OpRel32 == [I32Eq |-> "Eq", I32EqImm16 |-> "Eq", BranchI32Eq |-> "Eq", BranchI32EqImm |-> "Eq", I32Ne |-> "Ne", I32NeImm16 |-> "Ne", BranchI32Ne |-> "Ne", BranchI32NeImm |-> "Ne", I32LtS |-> "LtS", I32LtSImm16 |-> "LtS", BranchI32LtS |-> "LtS", BranchI32LtSImm |-> "LtS", I32LtU |-> "LtU", I32LtUImm16 |-> "LtU", BranchI32LtU |-> "LtU", BranchI32LtUImm |-> "LtU", I32LeS |-> "LeS", I32LeSImm16 |-> "LeS", BranchI32LeS |-> "LeS", BranchI32LeSImm |-> "LeS", I32LeU |-> "LeU", I32LeUImm16 |-> "LeU", BranchI32LeU |-> "LeU", BranchI32LeUImm |-> "LeU", I32GtS |-> "GtS", I32GtSImm16 |-> "GtS", BranchI32GtS |-> "GtS", BranchI32GtSImm |-> "GtS", I32GtU |-> "GtU", I32GtUImm16 |-> "GtU", BranchI32GtU |-> "GtU", BranchI32GtUImm |-> "GtU", I32GeS |-> "GeS", I32GeSImm16 |-> "GeS", BranchI32GeS |-> "GeS", BranchI32GeSImm |-> "GeS", I32GeU |-> "GeU", I32GeUImm16 |-> "GeU", BranchI32GeU |-> "GeU", BranchI32GeUImm |-> "GeU", I32And |-> "And", I32AndImm16 |-> "And", BranchI32And |-> "And", BranchI32AndImm |-> "And", I32Or |-> "Or", I32OrImm16 |-> "Or", BranchI32Or |-> "Or", BranchI32OrImm |-> "Or", I32Xor |-> "Xor", I32XorImm16 |-> "Xor", BranchI32Xor |-> "Xor", BranchI32XorImm |-> "Xor", I32AndEqz |-> "AndEqz", I32AndEqzImm16 |-> "AndEqz", BranchI32AndEqz |-> "AndEqz", BranchI32AndEqzImm |-> "AndEqz", I32OrEqz |-> "OrEqz", I32OrEqzImm16 |-> "OrEqz", BranchI32OrEqz |-> "OrEqz", BranchI32OrEqzImm |-> "OrEqz", I32XorEqz |-> "XorEqz", I32XorEqzImm16 |-> "XorEqz", BranchI32XorEqz |-> "XorEqz", BranchI32XorEqzImm |-> "XorEqz"]
\* The relation each 64-bit comparison or branch opcode evaluates.
OpRel64 == [I64Eq |-> "Eq", I64EqImm16 |-> "Eq", BranchI64Eq |-> "Eq", BranchI64EqImm |-> "Eq", I64Ne |-> "Ne", I64NeImm16 |-> "Ne", BranchI64Ne |-> "Ne", BranchI64NeImm |-> "Ne", I64LtS |-> "LtS", I64LtSImm16 |-> "LtS", BranchI64LtS |-> "LtS", BranchI64LtSImm |-> "LtS", I64LtU |-> "LtU", I64LtUImm16 |-> "LtU", BranchI64LtU |-> "LtU", BranchI64LtUImm |-> "LtU", I64LeS |-> "LeS", I64LeSImm16 |-> "LeS", BranchI64LeS |-> "LeS", BranchI64LeSImm |-> "LeS", I64LeU |-> "LeU", I64LeUImm16 |-> "LeU", BranchI64LeU |-> "LeU", BranchI64LeUImm |-> "LeU", I64GtS |-> "GtS", I64GtSImm16 |-> "GtS", BranchI64GtS |-> "GtS", BranchI64GtSImm |-> "GtS", I64GtU |-> "GtU", I64GtUImm16 |-> "GtU", BranchI64GtU |-> "GtU", BranchI64GtUImm |-> "GtU", I64GeS |-> "GeS", I64GeSImm16 |-> "GeS", BranchI64GeS |-> "GeS", BranchI64GeSImm |-> "GeS", I64GeU |-> "GeU", I64GeUImm16 |-> "GeU", BranchI64GeU |-> "GeU", BranchI64GeUImm |-> "GeU"]


\* One 16-bit limb of the bitwise operation `rel` (And, Or, Xor), bit by bit.
RECURSIVE BitwiseLimb(_, _, _, _)
BitwiseLimb(rel, a, b, n) == IF n = 0 THEN 0 ELSE 2 * BitwiseLimb(rel, a \div 2, b \div 2, n - 1) + (CASE rel = "And" -> (a % 2) * (b % 2) [] rel = "Or" -> (IF (a % 2) + (b % 2) > 0 THEN 1 ELSE 0) [] OTHER -> ((a % 2) + (b % 2)) % 2)

Bitwise(rel, a, b) == [i \in DOMAIN a |-> BitwiseLimb(rel, a[i], b[i], 16)]

ZeroBits(n) == [i \in 1 .. n |-> 0]

\* Unsigned order of two bit patterns of the same width.
LtU(a, b) == \E i \in DOMAIN a : a[i] < b[i] /\ \A j \in 1 .. (i - 1) : a[j] = b[j]

\* Signed (two's complement) order: the unsigned order with the sign bit flipped.
LtS(a, b) == LtU([a EXCEPT ![1] = (@ + 32768) % 65536], [b EXCEPT ![1] = (@ + 32768) % 65536])

\* Whether relation `rel` holds of a and b; for the bitwise relations, whether the
\* result is nonzero (And, Or, Xor) or zero (AndEqz, OrEqz, XorEqz).
Holds(rel, a, b) ==
  CASE rel = "Eq" -> a = b
    [] rel = "Ne" -> a # b
    [] rel = "LtS" -> LtS(a, b)
    [] rel = "LtU" -> LtU(a, b)
    [] rel = "LeS" -> ~LtS(b, a)
    [] rel = "LeU" -> ~LtU(b, a)
    [] rel = "GtS" -> LtS(b, a)
    [] rel = "GtU" -> LtU(b, a)
    [] rel = "GeS" -> ~LtS(a, b)
    [] rel = "GeU" -> ~LtU(a, b)
    [] rel = "And" -> Bitwise("And", a, b) # ZeroBits(Len(a))
    [] rel = "Or" -> Bitwise("Or", a, b) # ZeroBits(Len(a))
    [] rel = "Xor" -> Bitwise("Xor", a, b) # ZeroBits(Len(a))
    [] rel = "AndEqz" -> Bitwise("And", a, b) = ZeroBits(Len(a))
    [] rel = "OrEqz" -> Bitwise("Or", a, b) = ZeroBits(Len(a))
    [] rel = "XorEqz" -> Bitwise("Xor", a, b) = ZeroBits(Len(a))

\* The 16-bit immediate extended to n limbs (sign extension of a negative immediate).
ImmBits(imm, n) == [i \in 1 .. n |-> IF i = n THEN imm % 65536 ELSE IF imm < 0 THEN 65535 ELSE 0]

IsIntOp(op) == op \in DOMAIN OpRel32 \/ op \in DOMAIN OpRel64
OpLimbs(op) == IF op \in DOMAIN OpRel32 THEN 2 ELSE 4
OpRel(op) == IF op \in DOMAIN OpRel32 THEN OpRel32[op] ELSE OpRel64[op]

\* The two operand values of a comparison or branch word under register contents rho.
Operands(word, rho) == IF "lhs" \in DOMAIN word THEN <<rho[word.lhs], rho[word.rhs]>> ELSE <<rho[word.reg_in], ImmBits(word.imm_in, OpLimbs(word.op))>>

\* The i32 result a comparison or bitwise word writes to its result register.
ExecCompare(word, rho) == IF OpRel(word.op) \in {"And", "Or", "Xor"} THEN Bitwise(OpRel(word.op), Operands(word, rho)[1], Operands(word, rho)[2]) ELSE <<0, IF Holds(OpRel(word.op), Operands(word, rho)[1], Operands(word, rho)[2]) THEN 1 ELSE 0>>

\* Whether a conditional branch word is taken under register contents rho.
BranchTaken(word, rho) == Holds(OpRel(word.op), Operands(word, rho)[1], Operands(word, rho)[2])

(***************************************************************************)
(* Inputs of the translation that drives the encoder.                      *)
(***************************************************************************)
\* The result registers tried for the instruction pushed before a branch: a local
\* and a dynamic register.
ResultRegs == {0, NumLocals}

\* 16-bit immediates tried: signed ones, and 65535 for the unsigned comparisons.
ImmSamples(op) == IF OpRel(op) \in {"LtU", "LeU", "GtU", "GeU"} THEN {0, 65535} ELSE {0, 1, -32768}

\* The instruction words pushed before a branch: every opcode of the fusion tables
\* and an arithmetic instruction that none of them lists, with the result in the
\* first dynamic register or (register forms and zero immediates) in a local.
CmpWords == {BinInstr(op, result, NumLocals + 1, 0) : op \in DOMAIN NezFuse \cup {"I32Add"}, result \in ResultRegs} \cup UNION {{BinInstrImm16(op, NumLocals, NumLocals + 1, imm) : imm \in ImmSamples(op)} \cup {BinInstrImm16(op, 0, NumLocals + 1, 0)} : op \in DOMAIN NezFuseImm}

\* Constant values tried in copies: an i32, an i64 that is no sign-extended i32,
\* and the f64 1.0, which is exact as an f32.
ConstSamples == {TypedValue("I32", <<0, 10>>), TypedValue("I64", <<0, 256, 0, 0>>), TypedValue("F64", <<16368, 0, 0, 0>>)}

Providers == {Register(r) : r \in Regs} \cup {Const(v) : v \in ConstSamples}

RECURSIVE SeqsUpTo(_, _)
SeqsUpTo(S, n) == IF n = 0 THEN {<<>>} ELSE SeqsUpTo(S, n - 1) \cup {Append(q, x) : q \in {t \in SeqsUpTo(S, n - 1) : Len(t) = n - 1}, x \in S}

\* The fuel_info arguments valid in state e: metering off, or the handle of a
\* ConsumeFuel instruction.
FuelInfos(e) == {FuelNone} \cup {FuelSome(i - 1) : i \in {j \in DOMAIN e.instrs : e.instrs[j].op = "ConsumeFuel"}}

\* InstrEncoder::reset_last_instr that keeps the last instruction.
reset_last_instr_keeps(e) == [e |-> e, ret |-> Ok(0)]

\* InstrEncoder::reset_last_instr
reset_last_instr(e) == [e |-> [e EXCEPT !.last_instr = None], ret |-> Ok(0)]

(***************************************************************************)
(* Actions: one per encoder operation.                                     *)
(***************************************************************************)
\* The state after a call that returned r, `c` recording the call and its arguments.
\* History of insertions: stamp[i] tells that the word now at handle i - 1 was the
\* stamp[i]-th to be inserted among the words now in the sequence.  A word rewritten
\* in place keeps its stamp; Vec::push stamps the end of the sequence, Vec::insert
\* at handle `before` stamps that handle, and emptying the sequence drops the stamps.
Stamped(old, len, before) ==
  IF before # None /\ len = Len(old) + 1 /\ before <= Len(old) THEN SubSeq(old, 1, before) \o <<len>> \o SubSeq(old, before + 1, Len(old))
  ELSE IF len >= Len(old) THEN old \o [i \in 1 .. (len - Len(old)) |-> Len(old) + i]
  ELSE [i \in 1 .. len |-> i]

Apply(r, c) ==
  /\ instrs' = r.e.instrs
  /\ labels' = r.e.labels
  /\ users' = r.e.users
  /\ last_instr' = r.e.last_instr
  /\ notified_preservation' = r.e.notified_preservation
  /\ consts' = r.e.consts
  /\ ret' = r.ret
  /\ call' = c
  /\ stamp' = Stamped(stamp, Len(r.e.instrs), IF "before" \in DOMAIN r THEN r.before ELSE None)
  /\ UNCHANGED input

\* The translation of the function goes on: no panic has ended it, and none of
\* update_branch_offsets, defrag_registers and drain_instrs, its last steps, has run.
Running == ret.tag # "Panic" /\ call.op \notin {"update_branch_offsets", "defrag_registers", "drain_instrs"}

InitEnc ==
  /\ instrs = <<>>
  /\ labels = <<>>
  /\ users = <<>>
  /\ last_instr = None
  /\ notified_preservation = None
  /\ consts = <<>>
  /\ ret = Ok(0)
  /\ call = [op |-> "new"]
  /\ stamp = <<>>

PushInstr ==
  /\ Running /\ Len(instrs) < MaxInstrs
  /\ Apply(push_instr(Enc, input.word), [op |-> "push_instr", instr |-> input.word])

NewLabel ==
  /\ Running /\ Len(labels) < MaxLabels
  /\ Apply(new_label(Enc), [op |-> "new_label"])

PinLabel ==
  /\ Running
  /\ \E l \in DOMAIN labels : Apply(pin_label(Enc, l), [op |-> "pin_label", label |-> l])

PinLabelIfUnpinned ==
  /\ Running
  /\ \E l \in DOMAIN labels : Apply(pin_label_if_unpinned(Enc, l), [op |-> "pin_label_if_unpinned", label |-> l])

\* try_resolve_label for the next instruction, then push_instr of the branch that
\* carries the returned offset.
TryResolveLabel ==
  /\ Running /\ Len(instrs) <= MaxInstrs
  /\ \E l \in DOMAIN labels : Apply(push_instr(try_resolve_label(Enc, l).e, Branch(try_resolve_label(Enc, l).ret.val)), [op |-> "try_resolve_label", label |-> l, offset |-> try_resolve_label(Enc, l).ret.val])

EncodeBranchEqz ==
  /\ Running /\ Len(instrs) <= MaxInstrs
  /\ \E l \in DOMAIN labels : Apply(encode_branch_eqz(Enc, input.condition, l), [op |-> "encode_branch_eqz", condition |-> input.condition, label |-> l])

EncodeBranchNez ==
  /\ Running /\ Len(instrs) <= MaxInstrs
  /\ \E l \in DOMAIN labels : Apply(encode_branch_nez(Enc, input.condition, l), [op |-> "encode_branch_nez", condition |-> input.condition, label |-> l])

UpdateBranchOffsets ==
  /\ Running
  /\ Apply(update_branch_offsets(Enc), [op |-> "update_branch_offsets"])

\* InstrEncoder::reset_last_instr
ResetLastInstr ==
  /\ Running /\ last_instr # None
  /\ Apply(reset_last_instr(Enc), [op |-> "reset_last_instr"])

\* The operations that pin a label.
PinOps == {"pin_label", "pin_label_if_unpinned"}

\* reset_last_instr at a control-flow boundary: the call that follows the pinning of
\* a label.
ResetAtBoundary ==
  /\ Running /\ call.op \in PinOps
  /\ Apply(reset_last_instr(Enc), [op |-> "reset_last_instr"])

\* InstrEncoder::reset, with the reset of the value stack that goes with it when a
\* new function is translated.
Reset ==
  /\ ret.tag # "Panic"
  /\ Apply([e |-> EmptyEnc, ret |-> Ok(0)], [op |-> "reset"])

\* The fuel instruction of the function's first block: push_instr of ConsumeFuel
\* before any other instruction.
PushConsumeFuel ==
  /\ Running /\ instrs = <<>>
  /\ Apply(push_instr(Enc, ConsumeFuel(0)), [op |-> "push_instr", instr |-> ConsumeFuel(0)])

EncodeCopy ==
  /\ Running /\ Len(instrs) <= MaxInstrs /\ input.values # <<>>
  /\ \E fuel_info \in FuelInfos(Enc) : Apply(encode_copy(Enc, input.results, input.values[1], fuel_info), [op |-> "encode_copy", result |-> input.results, value |-> input.values[1], fuel_info |-> fuel_info])

EncodeCopies ==
  /\ Running /\ Len(instrs) <= MaxInstrs
  /\ \E fuel_info \in FuelInfos(Enc) : Apply(encode_copies(Enc, input.results, input.values, fuel_info), [op |-> "encode_copies", results |-> input.results, values |-> input.values, fuel_info |-> fuel_info])

\* InstrEncoder::has_overlapping_copies, applied to the input; the encoder is not
\* touched.
HasOverlappingCopies ==
  /\ Running
  /\ Apply([e |-> Enc, ret |-> Ok(IF has_overlapping_copies(input.results, input.values) THEN 1 ELSE 0)], [op |-> "has_overlapping_copies", results |-> input.results, values |-> input.values])

\* InstrEncoder::push_instr on a sequence of any length.
PushAny ==
  /\ Running
  /\ Apply(push_instr(Enc, input.word), [op |-> "push_instr", instr |-> input.word])

\* InstrEncoder::append_instr on a sequence of any length.
AppendAny ==
  /\ Running
  /\ Apply(append_instr(Enc, input.word), [op |-> "append_instr", instr |-> input.word])

\* InstrEncoder::append_instr of a parameter word of the last instruction.
AppendInstr ==
  /\ Running /\ last_instr # None /\ Len(instrs) - last_instr <= MaxParams
  /\ Apply(append_instr(Enc, RegisterWord("Register", <<NumLocals>>)), [op |-> "append_instr", instr |-> RegisterWord("Register", <<NumLocals>>)])

EncodeLocalSet ==
  /\ Running /\ Len(instrs) <= MaxInstrs + MaxParams
  /\ \E fuel_info \in FuelInfos(Enc) :
       LET r == encode_local_set(Enc, input.local, input.value, input.preserved, fuel_info)
       IN Apply(r, [op |-> "encode_local_set", local |-> input.local, value |-> input.value, preserved |-> input.preserved, fuel_info |-> fuel_info, notified |-> r.notified, before |-> r.before])

EncodeReturn ==
  /\ Running /\ Len(instrs) < MaxInstrs
  /\ \E fuel_info \in FuelInfos(Enc) : Apply(encode_return(Enc, input.values, fuel_info), [op |-> "encode_return", values |-> input.values, fuel_info |-> fuel_info])

EncodeReturnNez ==
  /\ Running /\ Len(instrs) < MaxInstrs
  /\ \E fuel_info \in FuelInfos(Enc) : Apply(encode_return_nez(Enc, input.condition, input.values, fuel_info), [op |-> "encode_return_nez", condition |-> input.condition, values |-> input.values, fuel_info |-> fuel_info])

\* InstrEncoder::defrag_registers, once the function is translated.
DefragRegisters ==
  /\ Running
  /\ Apply(defrag_registers(Enc, input.gap), [op |-> "defrag_registers", gap |-> input.gap])

\* No branch has been encoded yet.
NoBranch == \A i \in DOMAIN instrs : "offset" \notin DOMAIN instrs[i]

\* encode_branch_eqz / encode_branch_nez as the first branch of the function, after
\* any number of words.
EncodeBranchEqzFirst ==
  /\ Running /\ NoBranch
  /\ \E l \in DOMAIN labels : Apply(encode_branch_eqz(Enc, input.condition, l), [op |-> "encode_branch_eqz", condition |-> input.condition, label |-> l])

EncodeBranchNezFirst ==
  /\ Running /\ NoBranch
  /\ \E l \in DOMAIN labels : Apply(encode_branch_nez(Enc, input.condition, l), [op |-> "encode_branch_nez", condition |-> input.condition, label |-> l])

\* push_instr of the input's word behind a sequence longer than the largest offset.
PushInstrFar ==
  /\ Running /\ NoBranch /\ Len(instrs) > OffsetMax
  /\ Apply(push_instr(Enc, input.word), [op |-> "push_instr", instr |-> input.word])

\* InstrEncoder::fuse_i32_eqz
FuseI32Eqz ==
  /\ Running
  /\ Apply(fuse_i32_eqz(Enc), [op |-> "fuse_i32_eqz"])

\* InstrSequence::push_before of the input's second word, at any Instr up to the one
\* past the end of a short sequence, and at the last word of the longest one.
PushBefore ==
  /\ Running
  /\ \E instr \in 0 .. (Len(instrs) + 1) :
       /\ instr <= InstrIndexMax
       /\ Len(instrs) <= MaxInstrs + 1 \/ (Len(instrs) > InstrIndexMax /\ instr = Len(instrs) - 1)
       /\ LET p == push_before(Enc, instr, input.inserted)
          IN Apply([e |-> p.e, ret |-> p.ret, before |-> instr], [op |-> "push_before", instr |-> instr, instruction |-> input.inserted])

\* InstrEncoder::encode_register_list of the input's providers.
EncodeRegisterList ==
  /\ Running /\ Len(instrs) <= MaxInstrs
  /\ Apply(encode_register_list(Enc, input.values), [op |-> "encode_register_list", values |-> input.values])

\* InstrEncoder::drain_instrs: the words are handed over, which ends the translation.
\* The words the iterator yields are recorded in `call`, their number in `ret`.
DrainInstrs ==
  /\ Running
  /\ LET d == drain_instrs(Enc) IN Apply([e |-> d.e, ret |-> Ok(Len(d.ret.val))], [op |-> "drain_instrs", yielded |-> d.ret.val])

(***************************************************************************)
(* Specifications.                                                         *)
(***************************************************************************)
\* Fusion: the instruction pushed before the branches ranges over every opcode of
\* the fusion tables; the branches are forward branches to labels not pinned yet.
InitFuse == InitEnc /\ input \in {[word |-> w, condition |-> w.result] : w \in CmpWords}

NextFuse == PushInstr \/ NewLabel \/ EncodeBranchEqz \/ EncodeBranchNez

SpecFuse == InitFuse /\ [][NextFuse]_vars

\* Labels and branches: all label operations, forward and backward branches, fused
\* with a comparison or not.
InitBranch == InitEnc /\ input \in {[word |-> BinInstr("I32LtS", NumLocals, NumLocals + 1, 0), condition |-> NumLocals]}

NextBranch == PushInstr \/ NewLabel \/ PinLabel \/ PinLabelIfUnpinned \/ TryResolveLabel \/ EncodeBranchNez \/ UpdateBranchOffsets

SpecBranch == InitBranch /\ [][NextBranch]_vars

\* Copies: the destination span and the values copied are the input.
InitCopy == InitEnc /\ input \in {[results |-> r, values |-> v] : r \in Regs, v \in SeqsUpTo(Providers, MaxCopies)}

NextCopy == PushConsumeFuel \/ EncodeCopy \/ EncodeCopies \/ Reset

SpecCopy == InitCopy /\ [][NextCopy]_vars

\* The inputs of the unit tests of has_overlapping_copies: the head of the result
\* span and the values.
OverlapTests == {[results |-> 0, values |-> <<>>], [results |-> 0, values |-> <<Register(0), Register(1)>>], [results |-> 0, values |-> <<Const(TypedValue("I32", <<0, 10>>)), Const(TypedValue("I32", <<0, 20>>))>>], [results |-> 0, values |-> <<Const(TypedValue("I32", <<0, 10>>)), Register(0)>>], [results |-> 0, values |-> <<Register(0), Register(0)>>], [results |-> 3, values |-> <<Register(2), Register(3), Register(2)>>], [results |-> 3, values |-> <<Register(-1), Register(10), Register(2), Register(4)>>]}

\* Copies of a span of n consecutive registers from s to the span at d.
SpanInputs == {[results |-> d, values |-> [i \in 1 .. n |-> Register(s + i - 1)]] : d \in 0 .. (NumLocals + NumDyn), s \in 0 .. (NumLocals + NumDyn), n \in 3 .. MaxCopies}

\* Overlap of copies: the unit tests' inputs, spans of registers, and lists of
\* registers and constants.
InitOverlap == InitEnc /\ input \in OverlapTests \cup SpanInputs \cup {[results |-> r, values |-> v] : r \in Regs, v \in SeqsUpTo({Register(r2) : r2 \in Regs} \cup {Const(TypedValue("I32", <<0, 10>>))}, MaxCopies)}

NextOverlap == PushConsumeFuel \/ EncodeCopies \/ HasOverlappingCopies

SpecOverlap == InitOverlap /\ [][NextOverlap]_vars

\* The register that keeps the old value of a local: the first one of the storage
\* space.
PreservedReg == NumLocals + NumDyn

\* local.set: the instruction pushed before it is a comparison that writes the
\* first dynamic register; the value set is any register or a constant, with and
\* without preservation.
InitLocal == InitEnc /\ input \in {[word |-> BinInstr("I32LtS", NumLocals, NumLocals + 1, 0), condition |-> NumLocals, local |-> l, value |-> v, preserved |-> p] : l \in LocalRegs, v \in {Register(r) : r \in Regs} \cup {Const(TypedValue("I32", <<0, 10>>))}, p \in {None, PreservedReg}}

NextLocal == PushConsumeFuel \/ PushInstr \/ AppendInstr \/ EncodeLocalSet \/ ResetLastInstr \/ DrainInstrs \/ Reset

SpecLocal == InitLocal /\ [][NextLocal]_vars

\* Handles: every operation that inserts, rewrites or removes words, on one input:
\* a comparison, a branch on it, and a local.set of its result with preservation.
InitHandle == InitEnc /\ input \in {[word |-> BinInstr("I32LtS", NumLocals, NumLocals + 1, 0), condition |-> NumLocals, local |-> 0, value |-> Register(NumLocals), preserved |-> PreservedReg]}

NextHandle == PushConsumeFuel \/ PushInstr \/ EncodeLocalSet \/ NewLabel \/ PinLabel \/ EncodeBranchNez \/ UpdateBranchOffsets \/ DrainInstrs \/ Reset

SpecHandle == InitHandle /\ [][NextHandle]_vars

\* Control-flow boundaries: labels are pinned between instructions and local.set
\* preserves the old value of the local.  With input.reset the translator calls
\* reset_last_instr right after each pinning, before any other operation; without
\* it, the operations follow in any order.
InitBoundary == InitEnc /\ input \in {[word |-> BinInstr("I32LtS", NumLocals, NumLocals + 1, 0), condition |-> NumLocals, local |-> 0, value |-> Register(NumLocals), preserved |-> PreservedReg, reset |-> b] : b \in BOOLEAN}

NextBoundary == ResetAtBoundary \/ ((input.reset => call.op \notin PinOps) /\ (PushInstr \/ EncodeLocalSet \/ NewLabel \/ PinLabel \/ PinLabelIfUnpinned \/ EncodeBranchNezFirst \/ ResetLastInstr))

SpecBoundary == InitBoundary /\ [][NextBoundary]_vars

\* Pending users of labels: branches of both kinds to labels pinned before and after,
\* between instructions that local.set relinks and preserves, up to the update of
\* the offsets and the draining of the sequence.
InitUsers == InitEnc /\ input \in {[word |-> w, condition |-> NumLocals, local |-> 0, value |-> Register(NumLocals), preserved |-> PreservedReg] : w \in {BinInstr("I32LtS", NumLocals, NumLocals + 1, 0), BinInstrImm16("I32EqImm16", NumLocals, NumLocals + 1, 0)}}

NextUsers == PushInstr \/ EncodeLocalSet \/ NewLabel \/ PinLabel \/ EncodeBranchEqzFirst \/ EncodeBranchNez \/ UpdateBranchOffsets \/ DrainInstrs \/ Reset

SpecUsers == InitUsers /\ [][NextUsers]_vars

\* No last instruction: the operations that look at the last instruction, called
\* at the start and behind reset_last_instr as well as behind push_instr, with and
\* without fuel metering.
InitUnset == InitEnc /\ input \in {[word |-> BinInstr("I32And", NumLocals, NumLocals + 1, 0), condition |-> NumLocals, local |-> 0, value |-> v, preserved |-> p] : v \in {Register(NumLocals), Const(TypedValue("I32", <<0, 10>>))}, p \in {None, PreservedReg}}

NextUnset == PushConsumeFuel \/ PushInstr \/ ResetLastInstr \/ NewLabel \/ EncodeLocalSet \/ FuseI32Eqz \/ EncodeBranchEqzFirst \/ EncodeBranchNezFirst

SpecUnset == InitUnset /\ [][NextUnset]_vars

\* Insertion: words are pushed up to the limit of Instr and a copy is inserted
\* between them.
InitInsert == InitEnc /\ input \in {[word |-> BinInstr("I32Add", NumLocals, NumLocals + 1, 0), inserted |-> CopyInstr("Copy", PreservedReg, 0)]}

NextInsert == PushAny \/ PushBefore

SpecInsert == InitInsert /\ [][NextInsert]_vars

\* Register lists: the providers are locals, dynamic registers and a constant, behind
\* the head word of an instruction or none.
ListProviders == {Register(0), Register(NumLocals), Const(TypedValue("I32", <<0, 10>>))}

InitList == InitEnc /\ input \in {[word |-> ReturnRegs("ReturnMany", <<0, 0, 0>>), values |-> v] : v \in SeqsUpTo(ListProviders, MaxList)}

NextList == PushInstr \/ EncodeRegisterList

SpecList == InitList /\ [][NextList]_vars

\* The width of the last instruction: an instruction is pushed, parameter words and
\* register lists are appended to it, a local.set relinks it, and the words are
\* drained at the end.
InitWidth == InitEnc /\ input \in {[word |-> BinInstr("I32Add", NumLocals, NumLocals + 1, 0), local |-> 0, value |-> v, preserved |-> p, values |-> vs] : v \in {Register(NumLocals), Const(TypedValue("I32", <<0, 10>>))}, p \in {None, PreservedReg}, vs \in {<<Register(0)>>, <<Register(0), Register(NumLocals), Register(0), Register(NumLocals)>>}}

NextWidth == PushConsumeFuel \/ PushInstr \/ AppendInstr \/ EncodeRegisterList \/ EncodeLocalSet \/ ResetLastInstr \/ DrainInstrs

SpecWidth == InitWidth /\ [][NextWidth]_vars

\* Constants copied: i64 values at and around the limits of the sign-extended 32-bit
\* immediate, i32 and f32 values, and the two reference types.
CopiedConsts == {TypedValue("I64", bits) : bits \in {<<0, 0, 0, 0>>, <<0, 0, 32767, 65535>>, <<0, 0, 32768, 0>>, <<0, 0, 65535, 65535>>, <<0, 1, 0, 0>>, <<32767, 65535, 65535, 65535>>, <<65535, 65535, 65535, 65535>>, <<65535, 65535, 32768, 0>>, <<65535, 65535, 32767, 65535>>, <<65535, 65534, 65535, 65535>>, <<32768, 0, 0, 0>>}} \cup {TypedValue("I32", bits) : bits \in {<<0, 10>>, <<32768, 0>>, <<65535, 65535>>}} \cup {TypedValue("F32", <<16256, 0>>)} \cup {TypedValue(ty, <<0, 0, 0, 7>>) : ty \in {"FuncRef", "ExternRef"}}

InitConst == InitEnc /\ input \in {[results |-> r, values |-> <<Const(c)>>] : r \in Regs, c \in CopiedConsts}

SpecConst == InitConst /\ [][NextCopy]_vars

\* Growth of the sequence up to the limit of Instr.
InitPush == InitEnc /\ input \in {[word |-> w] : w \in {BinInstr("I32Add", NumLocals, NumLocals + 1, 0), RegisterWord("Register", <<NumLocals>>)}}

NextPush == PushAny \/ AppendAny

SpecPush == InitPush /\ [][NextPush]_vars

\* i32.eqz after an instruction: the bitwise instructions fuse_i32_eqz lists and
\* others it does not, in register and immediate form, with the result in a local
\* or in a dynamic register.
EqzWords == {BinInstr(op, result, NumLocals + 1, 0) : op \in {"I32And", "I32Or", "I32Xor", "I32AndEqz", "I32Add", "I64And"}, result \in ResultRegs} \cup {BinInstrImm16(op, result, NumLocals + 1, imm) : op \in {"I32AndImm16", "I32OrImm16", "I32XorImm16", "I32AddImm16"}, result \in ResultRegs, imm \in {0, -32768}}

InitEqz == InitEnc /\ input \in {[word |-> w] : w \in EqzWords}

NextEqz == PushInstr \/ AppendInstr \/ FuseI32Eqz \/ ResetLastInstr

SpecEqz == InitEqz /\ [][NextEqz]_vars

\* Spans of n consecutive registers that start at a local or a dynamic register.
ReturnSpans == {[i \in 1 .. n |-> Register(s + i - 1)] : s \in Regs, n \in 3 .. (MaxCopies + 2)}

\* Returns: the values returned are the input, none to one more than the inline
\* operands of return_many, or a register span; the condition is the first dynamic
\* register.
InitReturn == InitEnc /\ input \in {[condition |-> NumLocals, values |-> v] : v \in SeqsUpTo(Providers, MaxCopies + 1) \cup ReturnSpans}

NextReturn == PushConsumeFuel \/ EncodeReturn \/ EncodeReturnNez

SpecReturn == InitReturn /\ [][NextReturn]_vars

\* Long copies: k no-op copies, then a span of n registers copied to registers
\* below it or (the span ending in a constant instead) a short list that is no span.
LongCopies == {[results |-> 0, values |-> [i \in 1 .. (k + n) |-> Register(IF i <= k THEN i - 1 ELSE i)]] : k \in 0 .. 2, n \in 3 .. MaxSpan} \cup {[results |-> 0, values |-> [i \in 1 .. (k + n) |-> IF i = k + n THEN Const(TypedValue("I32", <<0, 10>>)) ELSE Register(IF i <= k THEN i - 1 ELSE i)]] : k \in 0 .. 2, n \in 3 .. (MaxCopies + 3)}

InitLong == InitEnc /\ input \in LongCopies

NextLong == PushConsumeFuel \/ EncodeCopies

SpecLong == InitLong /\ [][NextLong]_vars

\* Defragmentation: the instructions pushed read dynamic registers or registers of
\* the storage space; a local.set with or without preservation comes between them.
InitDefrag == InitEnc /\ input \in {[word |-> w, condition |-> NumLocals, local |-> 0, value |-> v, preserved |-> p, gap |-> g] : w \in {BinInstr("I32LtS", NumLocals, NumLocals + 1, 0), BinInstr("I32Add", NumLocals, PreservedReg, PreservedReg + 1), BinInstrImm16("I32AddImm16", NumLocals, PreservedReg, 1)}, v \in {Register(NumLocals), Register(PreservedReg + 1)}, p \in {None, PreservedReg}, g \in 1 .. 2}

NextDefrag == PushConsumeFuel \/ PushInstr \/ AppendInstr \/ EncodeLocalSet \/ DefragRegisters

SpecDefrag == InitDefrag /\ [][NextDefrag]_vars

\* Branch conditions: the condition of the branch is any register, the result of
\* the instruction pushed before the branch or another one.
InitCond == InitEnc /\ input \in {[word |-> w, condition |-> c] : w \in {BinInstr("I32LtS", NumLocals, 0, 0), BinInstr("F32Eq", NumLocals, 0, 0), BinInstrImm16("I64GeUImm16", NumLocals, 0, 1), BinInstrImm16("I32EqImm16", NumLocals, 0, 0), BinInstr("I32Add", NumLocals, 0, 0)}, c \in Regs}

NextCond == PushInstr \/ NewLabel \/ EncodeBranchEqz \/ EncodeBranchNez

SpecCond == InitCond /\ [][NextCond]_vars

\* Far branches: a comparison, any number of words appended behind it, a label
\* pinned before, between or after them, and one branch on the comparison.
InitFar == InitEnc /\ input \in {[word |-> w, condition |-> NumLocals] : w \in {BinInstr("I32LtS", NumLocals, NumLocals + 1, 0), BinInstrImm16("I32LtSImm16", NumLocals, NumLocals + 1, 1), BinInstrImm16("I32EqImm16", NumLocals, NumLocals + 1, 0), BinInstr("I32Add", NumLocals, NumLocals + 1, 0)}}

NextFar == PushInstr \/ PushInstrFar \/ (NoBranch /\ last_instr # None /\ AppendAny) \/ NewLabel \/ (NoBranch /\ PinLabel) \/ EncodeBranchEqzFirst \/ EncodeBranchNezFirst

SpecFar == InitFar /\ [][NextFar]_vars

(***************************************************************************)
(* Properties of compare and branch fusion, under SpecFuse.                *)
(***************************************************************************)
EncodeBranchOps == {"encode_branch_eqz", "encode_branch_nez"}

\* The step rewrote the word at the last_instr handle.
Rewritten == last_instr # None /\ Len(instrs') > last_instr /\ instrs'[last_instr + 1] # instrs[last_instr + 1]

\* Operand bit patterns tried: zero, one, the extremes of the signed range, -1, and
\* (64 bits) a value whose low half is zero.
SampleBits(n) == IF n = 2 THEN {<<0, 0>>, <<0, 1>>, <<32767, 65535>>, <<32768, 0>>, <<65535, 65535>>}
                 ELSE {<<0, 0, 0, 0>>, <<0, 0, 0, 1>>, <<0, 1, 0, 0>>, <<32767, 65535, 65535, 65535>>, <<32768, 0, 0, 0>>, <<65535, 65535, 65535, 65535>>}

\* Patterns tried against an immediate: the samples and the extended immediates.
ImmSampleBits(op, n) == SampleBits(n) \cup {ImmBits(imm, n) : imm \in ImmSamples(op)}

\* The values tried in the first and in the second operand register of `word`; a
\* word with an immediate reads one register only.
FirstValues(word) == IF "lhs" \in DOMAIN word THEN SampleBits(OpLimbs(word.op)) ELSE ImmSampleBits(word.op, OpLimbs(word.op))
SecondValues(word) == IF "lhs" \in DOMAIN word THEN SampleBits(OpLimbs(word.op)) ELSE {ZeroBits(OpLimbs(word.op))}

\* Register contents with `a` in the first operand register of `word` and `b` in
\* every other register.
RegContents(word, a, b) == [r \in Regs |-> IF r = (IF "lhs" \in DOMAIN word THEN word.lhs ELSE word.reg_in) THEN a ELSE b]

\* The unfused branch of the operation `op` on `condition`.
Unfused(op, condition, offset) == IF op = "encode_branch_eqz" THEN branch_i32_eqz(condition, offset) ELSE branch_i32_nez(condition, offset)

\* The offset try_resolve_label yields for `label` at the end of the sequence.
OffsetAtEnd(label) == IF labels[label] # None THEN labels[label] - Len(instrs) ELSE uninit

\* C1: whenever encode_branch_eqz / encode_branch_nez rewrites an integer comparison
\* or bitwise instruction into a fused branch, then for all operand values the fused
\* branch is taken exactly when the pair `compare ; branch_i32_eqz` (resp.
\* branch_i32_nez) on the compare's result register would be taken.
C1_FusionPreservesBranch == [][(call'.op \in EncodeBranchOps /\ Rewritten /\ IsIntOp(instrs[last_instr + 1].op)) =>
  LET cmp == instrs[last_instr + 1]
      fused == instrs'[last_instr + 1]
  IN \A a \in FirstValues(cmp), b \in SecondValues(cmp) :
       LET rho == RegContents(cmp, a, b)
       IN BranchTaken(fused, rho) = BranchTaken(Unfused(call'.op, cmp.result, 0), [rho EXCEPT ![cmp.result] = ExecCompare(cmp, rho)])]_vars

\* encode_branch_eqz fused a signed 64-bit comparison with a negative immediate
\* into the negated branch.
C1_Witness == call.op = "encode_branch_eqz" /\ input.word.op = "I64LtSImm16" /\ input.word.imm_in = -32768 /\ last_instr # None /\ instrs[last_instr + 1] = BranchBinOpInstrImm16("BranchI64GeSImm", NumLocals + 1, -32768, 0)

\* C2: when the last instruction's result register is in local space,
\* encode_branch_eqz / encode_branch_nez leave every word as it is and append exactly
\* one unfused branch_i32_eqz / branch_i32_nez on the condition register.
C2_LocalResultNotFused == [][(call'.op \in EncodeBranchOps /\ last_instr # None /\ "result" \in DOMAIN instrs[last_instr + 1] /\ get_register_space(instrs[last_instr + 1].result) = "Local") =>
  (IsOk(ret') /\ instrs' = Append(instrs, Unfused(call'.op, call'.condition, OffsetAtEnd(call'.label))))]_vars

\* A comparison into a local was followed by the unfused branch on the local.
C2_Witness == call.op = "encode_branch_nez" /\ Len(instrs) = 2 /\ instrs[1] = BinInstr("I32LtS", 0, NumLocals + 1, 0) /\ instrs[2] = branch_i32_nez(0, uninit) /\ last_instr = 1

\* The fused instruction that the operation recorded in `c` selects in state e.
FusedInstr(e, c) == IF c.op = "encode_branch_eqz" THEN fuse_match(e, e.last_instr, c.label, EqzZero, EqzFuse, EqzFuseImm).instr ELSE fuse_match(e, e.last_instr, c.label, NezZero, NezFuse, NezFuseImm).instr

\* C3: when encode_branch_eqz / encode_branch_nez fuses, the fused branch replaces
\* the word at the last_instr handle in place: the sequence length is unchanged,
\* every other word is unchanged, last_instr keeps the same handle, and the fused
\* word is a branch that carries the compare's operands (lhs, rhs) or (reg, imm16).
C3_FusedInPlace == [][(call'.op \in EncodeBranchOps /\ last_instr # None /\ FusedInstr(Enc, call') # <<>>) =>
  LET cmp == instrs[last_instr + 1]
      fused == instrs'[last_instr + 1]
  IN /\ Len(instrs') = Len(instrs)
     /\ \A i \in DOMAIN instrs : i # last_instr + 1 => instrs'[i] = instrs[i]
     /\ last_instr' = last_instr
     /\ fused.op \in BranchOps16
     /\ IF "lhs" \in DOMAIN cmp THEN fused.lhs = cmp.lhs /\ fused.rhs = cmp.rhs ELSE fused.reg_in = cmp.reg_in /\ fused.imm_in = cmp.imm_in]_vars

\* A comparison that follows another instruction was fused in place.
C3_Witness == call.op = "encode_branch_nez" /\ Len(instrs) = 2 /\ instrs[1] = BinInstr("I32GeU", NumLocals, NumLocals + 1, 0) /\ instrs[2] = BranchBinOpInstr("BranchI32GeU", NumLocals + 1, 0, uninit) /\ last_instr = 1

(***************************************************************************)
(* Properties of labels and branch offsets, under SpecBranch.              *)
(***************************************************************************)
\* Some pending user's label is not pinned.
UnpinnedUser == \E i \in DOMAIN users : labels[users[i].label] = None

\* C4: when every label with pending users is pinned, update_branch_offsets stores
\* into the branch instruction of every pending user the offset target - user, target
\* being the index the user's label was pinned at and user the recorded handle; and
\* no step changes the target of a pinned label.
C4_OffsetsAreTargetMinusUser == [][/\ (call'.op = "update_branch_offsets" /\ ~UnpinnedUser) =>
                                     /\ IsOk(ret') /\ Len(instrs') = Len(instrs)
                                     /\ \A i \in DOMAIN users : instrs'[users[i].user + 1] = [instrs[users[i].user + 1] EXCEPT !.offset = labels[users[i].label] - users[i].user]
                                   /\ \A l \in DOMAIN labels : labels[l] # None => (l \in DOMAIN labels' /\ labels'[l] = labels[l])]_vars

\* update_branch_offsets patched two forward branches to the same label, one of
\* them fused with the comparison, with different offsets.
C4_Witness == call.op = "update_branch_offsets" /\ IsOk(ret) /\ Len(users) = 2 /\ labels[users[1].label] = 2 /\ instrs[1] = BranchBinOpInstr("BranchI32LtS", NumLocals + 1, 0, 2) /\ instrs[2] = Branch(1)

\* C5: try_resolve_label(label) takes the next instruction index U, the length of
\* the sequence, as the user: for a label pinned at T it returns T - U and records no
\* user; otherwise it records (label, U) as pending user and returns the
\* uninitialized offset.
C5_TryResolveLabel == [][call'.op = "try_resolve_label" =>
  IF labels[call'.label] # None
  THEN call'.offset = labels[call'.label] - Len(instrs) /\ users' = users
  ELSE call'.offset = uninit /\ users' = Append(users, LabelUser(call'.label, Len(instrs)))]_vars

\* A backward branch: the label was pinned two instructions before the branch.
C5_Witness == call.op = "try_resolve_label" /\ call.offset = 0 - 2 /\ labels[call.label] = 0 /\ users = <<>> /\ instrs[3] = Branch(0 - 2)

\* C6: a label is pinned at most once: pin_label on a pinned label panics and
\* pin_label_if_unpinned on a pinned label changes nothing, whatever was encoded
\* since the first pin; both pin an unpinned label to the next instruction index.
C6_PinnedAtMostOnce == [][(call'.op \in {"pin_label", "pin_label_if_unpinned"}) =>
  IF labels[call'.label] # None
  THEN EncNext = Enc /\ ret'.tag = (IF call'.op = "pin_label" THEN "Panic" ELSE "Ok")
  ELSE IsOk(ret') /\ labels' = [labels EXCEPT ![call'.label] = Len(instrs)] /\ instrs' = instrs /\ users' = users]_vars

\* pin_label_if_unpinned was called on a label pinned before the last instruction
\* was encoded, and the target is still the index of the first pin.
C6_Witness == call.op = "pin_label_if_unpinned" /\ IsOk(ret) /\ Len(instrs) = 2 /\ labels[call.label] = 1

\* C7 as stated: update_branch_offsets called while a label with a pending user is
\* unpinned returns a recoverable error and does not panic.
C7_UnpinnedIsRecoverableError == (call.op = "update_branch_offsets" /\ UnpinnedUser) => ret.tag = "Err"

\* C7, amended: update_branch_offsets called while a label with a pending user is
\* unpinned never succeeds: it panics at the first pending user whose label is
\* unpinned, unless patching an earlier user already returned the error of an offset
\* out of range.
C7_UnpinnedPanics == (call.op = "update_branch_offsets" /\ UnpinnedUser) => (ret = Panic("failed to resolve user") \/ ret = Err("BranchOffsetOutOfBounds"))

\* update_branch_offsets panicked with two pending users of an unpinned label, a
\* fused branch and a plain one, and patched neither.
C7_Witness == call.op = "update_branch_offsets" /\ ret = Panic("failed to resolve user") /\ Len(users) = 2 /\ UnpinnedUser /\ instrs = <<BranchBinOpInstr("BranchI32LtS", NumLocals + 1, 0, uninit), Branch(uninit)>>

(***************************************************************************)
(* Properties of the copy encoder, under SpecCopy.                         *)
(***************************************************************************)
\* The first k values are registers equal to their own destinations.
NoOpPrefix(results, values, k) == \A i \in 1 .. k : values[i] = Register(results + (i - 1))

\* The number of values that encode_copies peels off the front.
PeelLen(results, values) == CHOOSE k \in 0 .. Len(values) : NoOpPrefix(results, values, k) /\ (k = Len(values) \/ values[k + 1] # Register(results + k))

\* The instruction sequence after `delta` fuel was charged to the block of fuel_info.
Charged(seq, fuel_info, delta) == IF fuel_info.kind = "None" THEN seq ELSE [seq EXCEPT ![fuel_info.instr + 1] = ConsumeFuel(@.amount + delta)]

\* The constants among the values, in order.
ConstsOf(values) == SelectSeq(values, LAMBDA v : v.kind = "Const")

\* C8: encode_copy(r, Register(r)) returns None and leaves the whole encoder
\* unchanged: no word appended, last_instr unchanged, no fuel charged, no constant
\* allocated.
C8_NoOpCopyElided == [][(call'.op = "encode_copy" /\ call'.value = Register(call'.result)) => (ret' = Ok(None) /\ EncNext = Enc)]_vars

\* A no-op copy was requested while a fuel instruction that could have been charged
\* was present, and nothing was encoded.
C8_Witness == call.op = "encode_copy" /\ call.value = Register(call.result) /\ call.fuel_info.kind = "Some" /\ ret = Ok(None) /\ Len(instrs) = 1

\* C9: for every k such that the first k values are registers equal to their own
\* destinations, encode_copies(span, values) leaves the encoder in the state (words,
\* last_instr, fuel, constants) and returns the result of encode_copies on the span
\* advanced by k and values[k..].
C9_NoOpPrefixPeel == [][call'.op = "encode_copies" => \A k \in 0 .. Len(call'.values) : NoOpPrefix(call'.results, call'.values, k) => (LET r == encode_copies(Enc, call'.results + k, SubSeq(call'.values, k + 1, Len(call'.values)), call'.fuel_info) IN EncNext = r.e /\ ret' = r.ret)]_vars

\* A no-op prefix of length two was peeled and the remaining copy was encoded and
\* charged.
C9_Witness == call.op = "encode_copies" /\ Len(call.values) = 3 /\ PeelLen(call.results, call.values) = 2 /\ call.fuel_info.kind = "Some" /\ Len(instrs) = 2 /\ instrs[1] = ConsumeFuel(1)

\* C10: when exactly two values remain after the no-op prefix is peeled, with dst
\* the destination of the first of them: if the second is Register(dst.next()),
\* encode_copies leaves the encoder as encode_copy(dst, first) does; otherwise it
\* appends exactly one Copy2 to dst whose operands are the register values
\* themselves and, for constants, newly allocated constant slots holding them,
\* charging the base fuel.
C10_TwoRemaining == [][call'.op = "encode_copies" =>
  LET k == PeelLen(call'.results, call'.values)
      dst == call'.results + k
      rest == SubSeq(call'.values, k + 1, Len(call'.values))
      slot0 == 0 - (Len(consts) + 1)
      r0 == IF rest[1].kind = "Register" THEN rest[1].reg ELSE slot0
      r1 == IF rest[2].kind = "Register" THEN rest[2].reg ELSE IF rest[1].kind = "Register" THEN slot0 ELSE slot0 - 1
  IN Len(rest) = 2 =>
       IF rest[2] = Register(dst + 1)
       THEN EncNext = encode_copy(Enc, dst, rest[1], call'.fuel_info).e /\ IsOk(ret')
       ELSE /\ instrs' = Append(Charged(instrs, call'.fuel_info, FuelCostsBase), CopyRegs("Copy2", dst, r0, r1))
            /\ consts' = consts \o [i \in 1 .. Len(ConstsOf(rest)) |-> ConstsOf(rest)[i].value]
            /\ last_instr' = Len(instrs)
            /\ IsOk(ret')]_vars

\* After a peeled no-op, a constant and a no-op second copy remained: one CopyImm32.
C10_WitnessFirstOnly == call.op = "encode_copies" /\ Len(call.values) = 3 /\ PeelLen(call.results, call.values) = 1 /\ call.values[2].kind = "Const" /\ call.values[3] = Register(call.results + 2) /\ instrs # <<>> /\ instrs[Len(instrs)].op = "CopyImm32"


(***************************************************************************)
(* Properties of overlapping copies, under SpecOverlap.                    *)
(***************************************************************************)
\* C11: has_overlapping_copies(results, values) is true exactly when, for some
\* position i counted from zero, values[i] is a register v with
\* results.head <= v < results.head + i; a constant value never makes it true and
\* an empty list gives false.
C11_HasOverlappingCopies == call.op = "has_overlapping_copies" =>
  LET head == call.results
      v == call.values
  IN /\ ret \in {Ok(0), Ok(1)}
     /\ (ret = Ok(1)) <=> (\E i \in 0 .. (Len(v) - 1) : v[i + 1].kind = "Register" /\ head <= v[i + 1].reg /\ v[i + 1].reg < head + i)
     /\ (\A i \in DOMAIN v : v[i].kind = "Const") => ret = Ok(0)
     /\ v = <<>> => ret = Ok(0)

\* The unit test with result span 3.. and values r2, r3, r2 found an overlap: r3 is
\* written by the first copy and read by the second.
C11_Witness == call.op = "has_overlapping_copies" /\ call.results = 3 /\ call.values = <<Register(2), Register(3), Register(2)>> /\ ret = Ok(1)

\* The values left after the no-op prefix are the n >= 3 registers s, s+1, ...
IsSpan(rest) == Len(rest) >= 3 /\ (\A i \in DOMAIN rest : rest[i].kind = "Register" /\ rest[i].reg = rest[1].reg + (i - 1))

\* C12: when at least three values remain after the no-op prefix is peeled and they
\* are the registers of the contiguous span s .. s+n-1, to be copied to the span at
\* d, encode_copies appends one word: copy_span(d, s, n) if s < d < s + n and
\* copy_span_non_overlapping(d, s, n) otherwise.
C12_SpanCopy == [][call'.op = "encode_copies" =>
  LET k == PeelLen(call'.results, call'.values)
      d == call'.results + k
      rest == SubSeq(call'.values, k + 1, Len(call'.values))
      s == rest[1].reg
      n == Len(rest)
  IN IsSpan(rest) =>
       /\ instrs' = Append(Charged(instrs, call'.fuel_info, FuelCostsBase + fuel_for_copies(n + 1)), CopySpan(IF s < d /\ d < s + n THEN "CopySpan" ELSE "CopySpanNonOverlapping", d, s, n))
       /\ last_instr' = Len(instrs)
       /\ consts' = consts
       /\ IsOk(ret')]_vars

\* A span copied to a span that starts inside it, and one copied to a span that
\* starts past its end.
C12_Witness == call.op = "encode_copies" /\ IsSpan(call.values) /\ call.values[1].reg < call.results /\ Len(instrs) = 1 /\ instrs[1].op = "CopySpan"

C12_WitnessNonOverlapping == call.op = "encode_copies" /\ IsSpan(call.values) /\ call.values[1].reg + Len(call.values) <= call.results /\ Len(instrs) = 1 /\ instrs[1].op = "CopySpanNonOverlapping"


(***************************************************************************)
(* Properties of handles, under SpecHandle.                                *)
(***************************************************************************)
\* The step called push_before with a handle at or below h, so that the word that
\* was at h is one place further.
ShiftedPast(h) == call'.op = "encode_local_set" /\ call'.before # None /\ call'.before <= h

InPlaceRewrite(h, old, new) ==
  \/ h = last_instr /\ call'.op \in EncodeBranchOps /\ "offset" \in DOMAIN new
  \/ h = last_instr /\ call'.op = "encode_local_set" /\ "result" \in DOMAIN old /\ new = [old EXCEPT !.result = call'.local]
  \/ "fuel_info" \in DOMAIN call' /\ call'.fuel_info = FuelSome(h) /\ old.op = "ConsumeFuel" /\ new.op = "ConsumeFuel" /\ new.amount > old.amount
  \/ call'.op = "update_branch_offsets" /\ "offset" \in DOMAIN old /\ new = [old EXCEPT !.offset = new.offset]

Chronological(seq, st) == [k \in 1 .. Len(seq) |-> seq[CHOOSE i \in 1 .. Len(seq) : st[i] = k]]

\* C14 as stated: drain_instrs yields the N words encoded in the order they were
\* inserted, a rewritten word standing where the word it replaced was inserted, and
\* leaves the sequence empty.
C14_DrainInInsertionOrder == [][call'.op = "drain_instrs" => call'.yielded = Chronological(instrs, stamp) /\ instrs' = <<>>]_vars

\* C14 (amended): drain_instrs yields the N words encoded in handle order and
\* leaves the sequence empty.  Handle order is insertion order except for the
\* preservation copies that push_before inserted, each of which stands before
\* words inserted earlier.
C14_DrainInHandleOrder == [][call'.op = "drain_instrs" =>
  /\ Len(call'.yielded) = Len(stamp)
  /\ \A h \in 1 .. Len(stamp) : call'.yielded[h] = instrs[h]
  /\ \A i, j \in 1 .. Len(stamp) : i < j /\ stamp[i] > stamp[j] => instrs[i] = CopyInstr("Copy", input.preserved, input.local)
  /\ instrs' = <<>>]_vars

\* The drain yielded a preservation copy in front of the relinked comparison, which
\* was inserted before it.
C14_Witness == call.op = "drain_instrs" /\ instrs = <<>> /\ Len(stamp) = 0 /\ call.yielded = <<CopyInstr("Copy", PreservedReg, 0), BinInstr("I32LtS", 0, NumLocals + 1, 0)>>


\* The conditions of the relinking of encode_local_set, on the arguments of the
\* step and the state before it: the value is a register outside the local space,
\* last_instr is set and, with a preserved register, fewer than four words lie
\* between last_instr and next_instr.
RelinkConditions ==
  /\ call'.value.kind = "Register" /\ get_register_space(call'.value.reg) # "Local"
  /\ last_instr # None
  /\ call'.preserved # None => Len(instrs) - last_instr < 4

\* The step relinked the last instruction: its word, where it stands after the
\* step, has the local as its result in place of another register.
Relinked ==
  /\ last_instr # None /\ "result" \in DOMAIN instrs[last_instr + 1] /\ instrs[last_instr + 1].result # call'.local
  /\ LET h2 == IF call'.before # None THEN last_instr + 1 ELSE last_instr
     IN Len(instrs') > h2 /\ instrs'[h2 + 1] = [instrs[last_instr + 1] EXCEPT !.result = call'.local]

\* The words the fallback appends: the preservation copy if a preserved register is
\* given, and the copy of the value to the local unless the value is the local.
PreserveCopy == IF call'.preserved # None THEN <<CopyInstr("Copy", call'.preserved, call'.local)>> ELSE <<>>

ValueCopied == call'.value # Register(call'.local)

\* Number of words the fallback appends.
FallbackLen == Len(PreserveCopy) + (IF ValueCopied THEN 1 ELSE 0)

FallbackAppended ==
  LET n == Len(instrs)
      k == FallbackLen
  IN /\ Len(instrs') = n + k
     /\ SubSeq(instrs', n + 1, n + Len(PreserveCopy)) = PreserveCopy
     /\ ValueCopied => /\ instrs'[n + k].op \in {"Copy", "CopyImm32", "CopyI64Imm32", "CopyF64Imm32"}
                       /\ instrs'[n + k].result = call'.local
                       /\ call'.value.kind = "Register" => instrs'[n + k] = CopyInstr("Copy", call'.local, call'.value.reg)
     /\ last_instr' = IF k = 0 THEN last_instr ELSE n + k - 1
     /\ IsOk(ret')

\* C16 as stated: encode_local_set relinks the last instruction only if the value
\* is a register outside the local space, last_instr is set and, when a preserved
\* register is given, next_instr - last_instr < 4; whenever one of these fails the
\* last instruction is left unchanged and the fallback copies are appended.
C16_LastInstrUnchanged == [][call'.op = "encode_local_set" =>
  /\ Relinked => RelinkConditions
  /\ ~RelinkConditions => FallbackAppended /\ (last_instr # None => instrs'[last_instr + 1] = instrs[last_instr + 1])]_vars

\* C16 (amended): the same, where in the fallback the words already encoded, the
\* last instruction among them, are left as they were but for the fuel of the
\* appended copies, which is added to the ConsumeFuel word of fuel_info even if
\* that word is the last instruction.
C16_RelinkOnlyIf == [][call'.op = "encode_local_set" =>
  /\ Relinked => RelinkConditions
  /\ ~RelinkConditions => FallbackAppended /\ ~Relinked /\ SubSeq(instrs', 1, Len(instrs)) = Charged(instrs, call'.fuel_info, FuelCostsBase * FallbackLen)]_vars

\* With a preserved register and three parameter words behind the last
\* instruction, whose result is the value set, the fallback appended both copies.
C16_WitnessWide == call.op = "encode_local_set" /\ call.preserved # None /\ call.before = None /\ call.value.kind = "Register" /\ Len(instrs) = 6 /\ instrs[1] = BinInstr("I32LtS", call.value.reg, NumLocals + 1, 0) /\ instrs[5] = CopyInstr("Copy", call.preserved, call.local) /\ instrs[6] = CopyInstr("Copy", call.local, call.value.reg)

\* The last instruction was relinked without preservation.
C16_WitnessRelinked == call.op = "encode_local_set" /\ call.preserved = None /\ instrs = <<BinInstr("I32LtS", call.local, NumLocals + 1, 0)>>

\* The optimized path of encode_local_set is taken: the conditions hold and the
\* last instruction accepts the relinking of its result from the value to the local.
OptimizedPath == RelinkConditions /\ "result" \in DOMAIN instrs[last_instr + 1] /\ instrs[last_instr + 1].result = call'.value.reg

\* C17: on the optimized path with a preserved register p and the last instruction
\* at handle h, after the call the word at h is copy(p, local), the relinked
\* instruction and its parameter words follow from h + 1 on, the sequence is one
\* word longer and last_instr is h + 1.
C17_PreserveBeforeRelinked == [][call'.op = "encode_local_set" /\ call'.preserved # None /\ OptimizedPath =>
  LET h == last_instr
  IN /\ Len(instrs') = Len(instrs) + 1
     /\ instrs'[h + 1] = CopyInstr("Copy", call'.preserved, call'.local)
     /\ instrs'[h + 2] = [instrs[h + 1] EXCEPT !.result = call'.local]
     /\ SubSeq(instrs', h + 3, Len(instrs')) = SubSeq(instrs, h + 2, Len(instrs))
     /\ SubSeq(instrs', 1, h) = SubSeq(Charged(instrs, call'.fuel_info, FuelCostsBase), 1, h)
     /\ last_instr' = h + 1
     /\ IsOk(ret')]_vars

\* The copy was inserted before a last instruction that has two parameter words.
C17_Witness == call.op = "encode_local_set" /\ call.before # None /\ last_instr = call.before + 1 /\ Len(instrs) = last_instr + 3 /\ instrs[last_instr] = CopyInstr("Copy", call.preserved, call.local) /\ instrs[last_instr + 1].result = call.local /\ instrs[last_instr + 2].op = "Register"

\* C18 as stated: on the optimized path with a preserved register,
\* notify_preserved_register receives the shifted handle that becomes last_instr.
C18_NotifiedAtNewLast == [][call'.op = "encode_local_set" /\ call'.preserved # None /\ OptimizedPath => call'.notified = <<last_instr'>>]_vars

\* C18 (amended): on the optimized path with a preserved register and the last
\* instruction at handle h, notify_preserved_register receives h, which after
\* push_before is the handle of the inserted copy(p, local) and is one less than the
\* new last_instr; it is recorded if no preservation was notified before.
C18_NotifiedAtCopy == [][call'.op = "encode_local_set" /\ call'.preserved # None /\ OptimizedPath =>
  /\ call'.notified = <<last_instr>>
  /\ last_instr' = last_instr + 1
  /\ instrs'[last_instr + 1] = CopyInstr("Copy", call'.preserved, call'.local)
  /\ notified_preservation' = IF notified_preservation = None THEN last_instr ELSE notified_preservation]_vars

\* The first preservation was notified and recorded at the handle of the inserted
\* copy, below the new last_instr.
C18_Witness == call.op = "encode_local_set" /\ call.before # None /\ call.notified = <<call.before>> /\ notified_preservation = call.before /\ last_instr = call.before + 1 /\ instrs[call.before + 1].op = "Copy"

\* The positions of the words that write the local for this local.set: a word
\* inserted by the step, or the relinked last instruction, with the local as result.
Writers == {i \in 1 .. Len(instrs') : "result" \in DOMAIN instrs'[i] /\ instrs'[i].result = call'.local /\ (stamp'[i] > Len(instrs) \/ (Relinked /\ i = last_instr' + 1))}

\* C19: whenever encode_local_set is called with a preserved register p, on the
\* fallback and on the optimized path, the sequence afterwards contains the
\* copy(p, local) of this call at an index strictly smaller than the index of the
\* instruction that writes the local for this local.set.
C19_PreservedBeforeWrite == [][call'.op = "encode_local_set" /\ call'.preserved # None /\ IsOk(ret') =>
  /\ \E j \in 1 .. Len(instrs') : instrs'[j].op = "Copy" /\ instrs'[j] = CopyInstr("Copy", call'.preserved, call'.local) /\ stamp'[j] > Len(instrs) /\ \A i \in Writers : j < i
  /\ ValueCopied => Writers # {}]_vars

\* The fallback appended the preservation copy and then the copy of a constant.
C19_WitnessFallback == call.op = "encode_local_set" /\ call.preserved # None /\ call.value.kind = "Const" /\ Len(instrs) = 2 /\ instrs[1].op = "Copy" /\ instrs[1] = CopyInstr("Copy", call.preserved, call.local) /\ instrs[2].op = "CopyImm32" /\ instrs[2].result = call.local

\* The optimized path inserted the preservation copy before the relinked instruction.
C19_WitnessOptimized == call.op = "encode_local_set" /\ call.before = 0 /\ instrs = <<CopyInstr("Copy", call.preserved, call.local), BinInstr("I32LtS", call.local, NumLocals + 1, 0)>>

\* C20: notify_preserved_register records the first notification only and ignores
\* the later ones; at every notification of an encode_local_set call the recorded
\* handle is at most the handle notified, and once recorded it stays until reset.
C20_FirstNotificationOnly == [][
  /\ call'.op = "encode_local_set" => \A k \in DOMAIN call'.notified :
       /\ notified_preservation' = IF notified_preservation = None THEN call'.notified[k] ELSE notified_preservation
       /\ notified_preservation' <= call'.notified[k]
  /\ notified_preservation # None /\ call'.op # "reset" => notified_preservation' = notified_preservation]_vars

\* A second preservation was notified at a later handle and ignored.
C20_Witness == call.op = "encode_local_set" /\ call.notified # <<>> /\ notified_preservation # None /\ notified_preservation < call.notified[1]

(***************************************************************************)
(* Properties of push at the limit of Instr, under SpecPush.               *)
(***************************************************************************)
\* C15: push appends the word and returns the previous length as its handle; when
\* that handle does not fit the index of an Instr, push fails with the error value
\* TooManyInstructions.
C15_PushOverflowIsError == [][call'.op \in {"push_instr", "append_instr"} =>
  IF Len(instrs) <= InstrIndexMax
  THEN instrs' = Append(instrs, call'.instr) /\ ret' = Ok(Len(instrs))
  ELSE ret' = Err("TooManyInstructions")]_vars

(***************************************************************************)
(* Properties of fuse_i32_eqz, under SpecEqz.                              *)
(***************************************************************************)
\* The bitwise instructions and the instruction each becomes under i32.eqz.
EqzForm == [I32And |-> "I32AndEqz", I32Or |-> "I32OrEqz", I32Xor |-> "I32XorEqz", I32AndImm16 |-> "I32AndEqzImm16", I32OrImm16 |-> "I32OrEqzImm16", I32XorImm16 |-> "I32XorEqzImm16"]

\* The last instruction is one that fuse_i32_eqz fuses: a bitwise and, or, xor, in
\* register or immediate form, whose result is not a local.
EqzFusable == last_instr # None /\ instrs[last_instr + 1].op \in DOMAIN EqzForm /\ get_register_space(instrs[last_instr + 1].result) # "Local"

\* C22: fuse_i32_eqz returns true exactly when last_instr is set and refers to an
\* I32And, I32Or or I32Xor instruction, in register or imm16 form, whose result is
\* not a local; that word is then replaced in place by its eqz form with the same
\* result and operands.  Otherwise it returns false and nothing is changed.
C22_FuseI32Eqz == [][call'.op = "fuse_i32_eqz" =>
  /\ ret' = Ok(IF EqzFusable THEN 1 ELSE 0)
  /\ EqzFusable => instrs' = [instrs EXCEPT ![last_instr + 1] = [instrs[last_instr + 1] EXCEPT !.op = EqzForm[instrs[last_instr + 1].op]]]
  /\ ~EqzFusable => instrs' = instrs
  /\ UNCHANGED <<last_instr, labels, users, notified_preservation, consts>>]_vars

\* An and with an immediate and a dynamic result was fused in place.
C22_Witness == call.op = "fuse_i32_eqz" /\ ret = Ok(1) /\ last_instr # None /\ instrs[last_instr + 1] = BinInstrImm16("I32AndEqzImm16", NumLocals, NumLocals + 1, -32768)

\* fuse_i32_eqz refused an xor that writes a local.
C22_WitnessLocal == call.op = "fuse_i32_eqz" /\ ret = Ok(0) /\ last_instr # None /\ instrs[last_instr + 1].op = "I32Xor" /\ get_register_space(instrs[last_instr + 1].result) = "Local"

(***************************************************************************)
(* Properties of the return encoder, under SpecReturn.                     *)
(***************************************************************************)
\* The registers that stand for the values: a register value is itself, the k-th
\* constant among the values is the k-th slot allocated below the `nconsts` slots
\* allocated before.
RegsOf(values, nconsts) == [i \in DOMAIN values |-> IF values[i].kind = "Register" THEN values[i].reg ELSE 0 - (nconsts + Len(ConstsOf(SubSeq(values, 1, i))))]

\* The words ws are the register list of regs: three registers per word, every word
\* but the last a register_list, the last a register, register2 or register3.
IsRegisterList(ws, regs) ==
  /\ Len(ws) = (Len(regs) + 2) \div 3
  /\ \A i \in DOMAIN ws : ws[i] = RegisterWord(IF i < Len(ws) THEN "RegisterList" ELSE <<"Register", "Register2", "Register3">>[Len(regs) - 3 * (i - 1)], SubSeq(regs, 3 * (i - 1) + 1, IF i < Len(ws) THEN 3 * i ELSE Len(regs)))

\* The words the step appended.
Appended == SubSeq(instrs', Len(instrs) + 1, Len(instrs'))

ReturnOps == {"Return", "ReturnReg", "ReturnReg2", "ReturnReg3", "ReturnImm32", "ReturnI64Imm32", "ReturnF64Imm32", "ReturnSpan", "ReturnMany"}

\* C25: encode_return selects its instruction by the number of values: Return for
\* none, return_reg for one register, return_reg2 for two values, return_reg3 for
\* three; for four or more, return_span when the values are a contiguous register
\* span, otherwise return_many of the first three followed by the register list of
\* values[3..].  Exactly one return instruction is pushed, and it is the last
\* instruction.
C25_EncodeReturn == [][call'.op = "encode_return" =>
  LET values == call'.values
      n == Len(values)
      regs == RegsOf(values, Len(consts))
  IN /\ IsOk(ret') /\ Appended # <<>> /\ last_instr' = Len(instrs)
     /\ Appended[1].op \in ReturnOps /\ \A i \in 2 .. Len(Appended) : Appended[i].op \notin ReturnOps
     /\ n = 0 => Appended = <<ReturnRegs("Return", <<>>)>>
     /\ n = 1 /\ values[1].kind = "Register" => Appended = <<ReturnRegs("ReturnReg", regs)>>
     /\ n = 1 => Len(Appended) = 1
     /\ n = 2 => Appended = <<ReturnRegs("ReturnReg2", regs)>>
     /\ n = 3 => Appended = <<ReturnRegs("ReturnReg3", regs)>>
     /\ n >= 4 /\ IsSpan(values) => Appended = <<ReturnSpan("ReturnSpan", values[1].reg, n)>>
     /\ n >= 4 /\ ~IsSpan(values) => Appended[1] = ReturnRegs("ReturnMany", SubSeq(regs, 1, 3)) /\ IsRegisterList(Tail(Appended), SubSeq(regs, 4, n))]_vars

\* Four values that are no span were returned: a return_many and one register word.
C25_Witness == call.op = "encode_return" /\ Len(call.values) = 4 /\ ~IsSpan(call.values) /\ last_instr # None /\ Len(instrs) = last_instr + 2 /\ instrs[last_instr + 1].op = "ReturnMany" /\ instrs[last_instr + 2].op = "Register"

\* Four contiguous registers were returned as one return_span.
C25_WitnessSpan == call.op = "encode_return" /\ Len(call.values) = 4 /\ last_instr # None /\ instrs[last_instr + 1] = ReturnSpan("ReturnSpan", 0, 4)

\* The return_nez instruction of a return instruction: the same operands behind
\* the condition.
NezOp == [Return |-> "ReturnNez", ReturnReg |-> "ReturnNezReg", ReturnReg2 |-> "ReturnNezReg2", ReturnReg3 |-> "ReturnNezReg3", ReturnImm32 |-> "ReturnNezImm32", ReturnI64Imm32 |-> "ReturnNezI64Imm32", ReturnF64Imm32 |-> "ReturnNezF64Imm32", ReturnSpan |-> "ReturnNezSpan", ReturnMany |-> "ReturnNezMany"]

NezOf(word, condition) == [f \in DOMAIN word \cup {"condition"} |-> IF f = "condition" THEN condition ELSE IF f = "op" THEN NezOp[word.op] ELSE word[f]]

\* The words encode_return appends for the values of the step.
ReturnWords(values, fuel_info) == LET r == encode_return(Enc, values, fuel_info).e.instrs IN SubSeq(r, Len(instrs) + 1, Len(r))

\* C26 as stated: encode_return_nez has the shape of encode_return in every case of
\* arity (0, 1 register, 1 constant, 2, 3, and 4 or more with the first three values
\* inline): it appends the words encode_return appends, the return instruction
\* replaced by its return_nez form with the condition in front.
C26_SameShapeAsReturn == [][call'.op = "encode_return_nez" =>
  LET ws == ReturnWords(call'.values, call'.fuel_info)
  IN Appended = <<NezOf(ws[1], call'.condition)>> \o Tail(ws)]_vars

\* C26: encode_return_nez selects as encode_return does for no value, one register,
\* one constant and two values, with the condition in front.  It has no case for
\* three values: for three or more it pushes return_nez_span when the values are a
\* contiguous register span, otherwise return_nez_many with the first two values
\* inline, followed by the register list of values[2..].
C26_ReturnNezShape == [][call'.op = "encode_return_nez" =>
  LET values == call'.values
      n == Len(values)
      c == call'.condition
      regs == RegsOf(values, Len(consts))
      ws == ReturnWords(values, call'.fuel_info)
  IN /\ IsOk(ret') /\ Appended # <<>> /\ last_instr' = Len(instrs)
     /\ n <= 2 => Appended = <<NezOf(ws[1], c)>>
     /\ n >= 3 /\ IsSpan(values) => Appended = <<ReturnNezSpan("ReturnNezSpan", c, values[1].reg, n)>>
     /\ n >= 3 /\ ~IsSpan(values) => Appended[1] = ReturnNezRegs("ReturnNezMany", c, SubSeq(regs, 1, 2)) /\ IsRegisterList(Tail(Appended), SubSeq(regs, 3, n))]_vars

\* Three values that are no span were returned conditionally: a return_nez_many
\* with two of them and a register word with the third.
C26_Witness == call.op = "encode_return_nez" /\ Len(call.values) = 3 /\ last_instr # None /\ Len(instrs) = last_instr + 2 /\ instrs[last_instr + 1].op = "ReturnNezMany" /\ Len(instrs[last_instr + 1].values) = 2 /\ instrs[last_instr + 2].op = "Register"

\* One constant was returned conditionally as an immediate behind the condition.
C26_WitnessConst == call.op = "encode_return_nez" /\ Len(call.values) = 1 /\ last_instr # None /\ instrs[last_instr + 1] = ReturnNezImm("ReturnNezF64Imm32", NumLocals, <<16256, 0>>)

(***************************************************************************)
(* Properties of the fuel of long copies, under SpecLong.                  *)
(***************************************************************************)
\* The values that remain after the no-op prefix of the step's values is peeled.
Remaining == SubSeq(call'.values, PeelLen(call'.results, call'.values) + 1, Len(call'.values))

\* C27 as stated: with fuel metering enabled and len >= 3 values remaining after the
\* no-op prefix is peeled, encode_copies adds base + fuel_for_copies(len + 3) to the
\* fuel of the block's ConsumeFuel instruction.
C27_FuelOfLenPlus3 == [][call'.op = "encode_copies" /\ call'.fuel_info.kind = "Some" /\ Len(Remaining) >= 3 =>
  instrs'[call'.fuel_info.instr + 1] = ConsumeFuel(instrs[call'.fuel_info.instr + 1].amount + FuelCostsBase + fuel_for_copies(Len(Remaining) + 3))]_vars

\* C27: with fuel metering enabled and len >= 3 values remaining after the no-op
\* prefix is peeled, encode_copies adds base + fuel_for_copies(len + 1) to the fuel
\* of the block's ConsumeFuel instruction: three more than the number of values that
\* follow the first two.
C27_FuelOfLenPlus1 == [][call'.op = "encode_copies" /\ call'.fuel_info.kind = "Some" /\ Len(Remaining) >= 3 =>
  instrs'[call'.fuel_info.instr + 1] = ConsumeFuel(instrs[call'.fuel_info.instr + 1].amount + FuelCostsBase + fuel_for_copies(Len(Remaining) + 1))]_vars

\* After two no-op copies, CopiesPerFuel - 3 values remained and only the base fuel
\* was charged.
C27_Witness == call.op = "encode_copies" /\ call.fuel_info.kind = "Some" /\ PeelLen(call.results, call.values) = 2 /\ Len(call.values) - 2 = CopiesPerFuel - 3 /\ instrs[1] = ConsumeFuel(FuelCostsBase) /\ Len(instrs) = 2

(***************************************************************************)
(* Properties of defrag_registers, under SpecDefrag.                       *)
(***************************************************************************)
\* C21: defrag_registers changes no word at a handle below the recorded preservation
\* handle h, remaps the input registers of every word at a handle from h on, and
\* changes nothing at all when no preservation was notified.  No word is added or
\* removed and no result register is changed.
C21_DefragFromNotified == [][call'.op = "defrag_registers" =>
  /\ IsOk(ret') /\ Len(instrs') = Len(instrs)
  /\ UNCHANGED <<last_instr, labels, users, notified_preservation, consts>>
  /\ notified_preservation = None => instrs' = instrs
  /\ notified_preservation # None => \A i \in DOMAIN instrs :
       /\ i - 1 < notified_preservation => instrs'[i] = instrs[i]
       /\ i - 1 >= notified_preservation => instrs'[i] = visit_input_registers(instrs[i], call'.gap)
       /\ "result" \in DOMAIN instrs[i] => instrs'[i].result = instrs[i].result]_vars

\* A preservation was notified at a handle h > 0; a word below h still reads the
\* storage register it read, a word above h reads the remapped one.
C21_Witness == call.op = "defrag_registers" /\ notified_preservation # None /\ notified_preservation > 0 /\ (\E i, j \in DOMAIN instrs : i - 1 < notified_preservation /\ j - 1 > notified_preservation /\ instrs[i].op = "I32Add" /\ instrs[j].op = "I32Add" /\ instrs[i].lhs = PreservedReg /\ instrs[j].lhs = PreservedReg + call.gap)

\* No preservation was notified and words that read storage registers were left.
C21_WitnessNone == call.op = "defrag_registers" /\ notified_preservation = None /\ (\E i \in DOMAIN instrs : instrs[i].op = "I32Add" /\ instrs[i].lhs = PreservedReg)

(***************************************************************************)
(* Properties of the fusion of float comparisons, under SpecFuse.          *)
(***************************************************************************)
\* The ordered float comparisons.
FloatOrder == {"F32Lt", "F32Le", "F32Gt", "F32Ge", "F64Lt", "F64Le", "F64Gt", "F64Ge"}

\* The float comparisons and the branches of the same name.
FloatBranch == [F32Eq |-> "BranchF32Eq", F32Ne |-> "BranchF32Ne", F32Lt |-> "BranchF32Lt", F32Le |-> "BranchF32Le", F32Gt |-> "BranchF32Gt", F32Ge |-> "BranchF32Ge", F64Eq |-> "BranchF64Eq", F64Ne |-> "BranchF64Ne", F64Lt |-> "BranchF64Lt", F64Le |-> "BranchF64Le", F64Gt |-> "BranchF64Gt", F64Ge |-> "BranchF64Ge"]

\* C23: when the last instruction is an ordered float comparison (F32 or F64 Lt, Le,
\* Gt, Ge), encode_branch_eqz never rewrites it and appends the unfused
\* branch_i32_eqz on the condition; encode_branch_nez fuses every float comparison
\* (F32 or F64 Eq, Ne, Lt, Le, Gt, Ge) whose result is no local into the branch of
\* the same name, in place.
C23_FloatFusion == [][call'.op \in EncodeBranchOps /\ last_instr # None /\ instrs[last_instr + 1].op \in DOMAIN FloatBranch =>
  LET last == instrs[last_instr + 1] IN
  /\ call'.op = "encode_branch_eqz" /\ last.op \in FloatOrder =>
       /\ IsOk(ret') /\ Len(instrs') = Len(instrs) + 1 /\ SubSeq(instrs', 1, Len(instrs)) = instrs
       /\ instrs'[Len(instrs')] = branch_i32_eqz(call'.condition, instrs'[Len(instrs')].offset)
       /\ last_instr' = Len(instrs)
  /\ call'.op = "encode_branch_nez" /\ get_register_space(last.result) # "Local" =>
       /\ IsOk(ret') /\ last_instr' = last_instr
       /\ instrs' = [instrs EXCEPT ![last_instr + 1] = BranchBinOpInstr(FloatBranch[last.op], last.lhs, last.rhs, instrs'[last_instr + 1].offset)]]_vars

\* encode_branch_eqz left an f64.lt in a dynamic register and appended the unfused
\* branch.
C23_Witness == call.op = "encode_branch_eqz" /\ Len(instrs) = 2 /\ instrs[1] = BinInstr("F64Lt", NumLocals, NumLocals + 1, 0) /\ instrs[2].op = "BranchI32EqImm" /\ last_instr = 1

\* encode_branch_nez fused an f64.ge into branch_f64_ge.
C23_WitnessNez == call.op = "encode_branch_nez" /\ Len(instrs) = 1 /\ instrs[1].op = "BranchF64Ge" /\ input.word.op = "F64Ge" /\ last_instr = 0

(***************************************************************************)
(* Properties of the condition of a fused branch, under SpecCond.          *)
(***************************************************************************)
\* C28: encode_branch_eqz and encode_branch_nez rewrite the last instruction into a
\* fused compare and branch only when the condition register of the branch is the
\* result register of that instruction; when the two differ, the last instruction is
\* kept and the unfused branch on the condition register is appended.
C28_FusedOnlyOnItsResult == [][call'.op \in EncodeBranchOps /\ last_instr # None /\ "result" \in DOMAIN instrs[last_instr + 1] =>
  /\ Rewritten => call'.condition = instrs[last_instr + 1].result
  /\ call'.condition # instrs[last_instr + 1].result => instrs' = Append(instrs, Unfused(call'.op, call'.condition, OffsetAtEnd(call'.label)))]_vars

(***************************************************************************)
(* Properties of branches too far for a 16-bit offset, under SpecFar.      *)
(***************************************************************************)
\* The last instruction is one the step's branch fuses with when the offset fits: a
\* row of the fusion tables with a result that is no local.
Fusable == last_instr # None /\ "result" \in DOMAIN instrs[last_instr + 1] /\ get_register_space(instrs[last_instr + 1].result) # "Local" /\ instrs[last_instr + 1].op \in (IF call'.op = "encode_branch_eqz" THEN DOMAIN EqzFuse \cup DOMAIN EqzFuseImm ELSE DOMAIN NezFuse \cup DOMAIN NezFuseImm)

\* The last instruction is a comparison with the immediate zero.
ZeroArm == instrs[last_instr + 1].op \in DOMAIN EqzZero /\ instrs[last_instr + 1].imm_in = 0

\* The label of the step's branch is pinned, the offset to it from the last
\* instruction does not fit 16 bits, and the sequence has room for one more word.
FusedTooFar == labels[call'.label] # None /\ ~FitsOffset16(labels[call'.label] - last_instr) /\ Len(instrs) <= InstrIndexMax

\* The offset to the label of the step's branch from the end of the sequence fits.
UnfusedFits == FitsOffset16(labels[call'.label] - Len(instrs))

\* C24: if fusion is rejected because the offset does not fit 16 bits,
\* encode_branch_eqz / encode_branch_nez fall back to the unfused branch; if the
\* unfused offset does not fit either, the call returns a range error, the last
\* instruction is unmodified and no word is appended.
C24_TooFarFallsBack == [][call'.op \in EncodeBranchOps /\ Fusable /\ FusedTooFar =>
  IF UnfusedFits THEN IsOk(ret') /\ instrs' = Append(instrs, Unfused(call'.op, call'.condition, labels[call'.label] - Len(instrs)))
  ELSE ret' = Err("BranchOffsetOutOfBounds") /\ EncNext = Enc]_vars

\* What encode_branch_eqz / encode_branch_nez do instead (the zero-immediate arms
\* use `?` on the conversion): if fusion with a register or imm16 comparison is rejected because the offset
\* from the last instruction does not fit 16 bits, encode_branch_eqz /
\* encode_branch_nez fall back to the unfused branch; if the unfused offset does not
\* fit either, the call returns a range error.  For a comparison with the immediate
\* zero, the offset that does not fit is a range error at once, with no fallback.
\* In each case of error the last instruction is unmodified, no word is appended and
\* the encoder is as before.
FarBranchFallsBackButZero == [][call'.op \in EncodeBranchOps /\ Fusable /\ FusedTooFar =>
  IF UnfusedFits /\ ~ZeroArm THEN IsOk(ret') /\ last_instr' = Len(instrs) /\ instrs' = Append(instrs, Unfused(call'.op, call'.condition, labels[call'.label] - Len(instrs)))
  ELSE ret' = Err("BranchOffsetOutOfBounds") /\ EncNext = Enc]_vars

\* A branch back to a label too far from both the last instruction and the end of
\* the sequence returned the range error.
FarBranchError == call.op = "encode_branch_nez" /\ ret = Err("BranchOffsetOutOfBounds") /\ last_instr # None /\ instrs[last_instr + 1].op = "I32LtS" /\ labels[call.label] # None /\ ~FitsOffset16(labels[call.label] - Len(instrs)) /\ NoBranch

\* A label pinned too far behind the last instruction, but at the end of the
\* sequence: the unfused branch was appended after the comparison.
FarBranchFallback == call.op = "encode_branch_eqz" /\ IsOk(ret) /\ labels[call.label] # None /\ Len(instrs) > OffsetMax + 2 /\ instrs[1].op = "I32LtSImm16" /\ instrs[Len(instrs)] = branch_i32_eqz(call.condition, 0)

\* The same label after a comparison with zero: the range error, and no fallback.
FarBranchZero == call.op = "encode_branch_eqz" /\ ret = Err("BranchOffsetOutOfBounds") /\ last_instr # None /\ instrs[last_instr + 1].op = "I32EqImm16" /\ labels[call.label] = Len(instrs) /\ NoBranch

(***************************************************************************)
(* Properties of pinned labels and insertion, under SpecBoundary.          *)
(***************************************************************************)
\* The labels that are pinned.
Pinned == {l \in DOMAIN labels : labels[l] # None}

\* The step leaves the words below the target of each pinned label where they were:
\* no word is inserted or removed at an index strictly below the target, and the
\* target is kept.
BelowTargetsKept == \A l \in Pinned : labels'[l] = labels[l] /\ Len(stamp') >= labels[l] /\ SubSeq(stamp', 1, labels[l]) = SubSeq(stamp, 1, labels[l])

\* C29: if reset_last_instr is called right after every pin_label /
\* pin_label_if_unpinned, no later operation inserts a word at an index strictly
\* below the target of a pinned label: the words below each pinned target stay where
\* they were, and the last instruction, if any, is at or behind each pinned target.
C29_NoInsertBelowPinned == [][input.reset => BelowTargetsKept /\ (call'.op \notin PinOps /\ last_instr' # None => \A l \in Pinned : last_instr' >= labels[l])]_vars

\* With the reset after the pinning, encode_local_set preserved the local: the copy
\* was inserted, at the target of the pinned label and not below it.
C29_Witness == input.reset /\ call.op = "encode_local_set" /\ call.before # None /\ \E l \in Pinned : call.before = labels[l] /\ instrs[call.before + 1].op = "Copy" /\ Len(instrs) > call.before + 1

\* C29, without the reset: no operation inserts a word below a pinned target.
NoResetNoInsertBelowPinned == [][~input.reset => BelowTargetsKept]_vars

\* Without the reset, encode_local_set inserted the copy that preserves the local
\* below the target of a pinned label.
C29_WitnessNoReset == ~input.reset /\ call.op = "encode_local_set" /\ call.before # None /\ instrs[call.before + 1].op = "Copy" /\ \E l \in Pinned : call.before < labels[l]

(***************************************************************************)
(* Properties of the pending users of labels, under SpecUsers.             *)
(***************************************************************************)
\* Pending user i is a handle of the sequence, and the word there is a branch.
IndexesBranch(i) == users[i].user < Len(instrs) /\ instrs[users[i].user + 1].op \in BranchOps16 \cup {"Branch"}

UserOfCall == LabelUser(call'.label, IF Rewritten THEN last_instr ELSE Len(instrs))

C30_WitnessUpdated == call.op = "update_branch_offsets" /\ IsOk(ret) /\ Len(users) = 2 /\ users[1].user # users[2].user /\ \E i \in 1 .. 2 : instrs[users[i].user + 1].op \in {"BranchI32LtS", "BranchI32GeS"}

\* The sequence drained with a user pending: its handle indexes nothing.
C30_WitnessDrained == call.op = "drain_instrs" /\ users # <<>> /\ instrs = <<>>

(***************************************************************************)
(* Properties of the handles the encoder keeps, under SpecLocal.           *)
(***************************************************************************)
\* A handle kept by the encoder is unset or refers to a word of the sequence.
Present(handle) == handle = None \/ handle < Len(instrs)

\* C31: in every reachable state of the encoder, last_instr and
\* notified_preservation, when set, are handles strictly smaller than the number of
\* encoded words, including after drain_instrs.
C31_HandlesPresent == Present(last_instr) /\ Present(notified_preservation)

\* The same in every state that drain_instrs did not produce, where it holds:
\* drain_instrs empties the sequence and keeps both handles as they were.
HandlesPresentUntilDrained == call.op # "drain_instrs" => C31_HandlesPresent

\* The sequence drained after a local.set that preserved the local: both handles are
\* still set, and no word is left.
HandlesKeptByDrain == call.op = "drain_instrs" /\ instrs = <<>> /\ last_instr # None /\ notified_preservation # None

(***************************************************************************)
(* Properties of the operations without a last instruction, under          *)
(* SpecUnset.                                                              *)
(***************************************************************************)
\* The operations that look at the last instruction.
LastInstrOps == {"encode_local_set", "fuse_i32_eqz"} \cup EncodeBranchOps

\* Word i of the sequence is the ConsumeFuel word that the step's fuel_info names,
\* and the step changed at most its amount.
FuelBumped(i) == "fuel_info" \in DOMAIN call' /\ call'.fuel_info = FuelSome(i - 1) /\ instrs[i].op = "ConsumeFuel" /\ instrs'[i].op = "ConsumeFuel" /\ instrs'[i].amount >= instrs[i].amount

\* C32: when last_instr is unset, encode_local_set, fuse_i32_eqz, encode_branch_eqz
\* and encode_branch_nez change no word already encoded other than the amount of the
\* ConsumeFuel word named by fuel_info: they only append words, and fuse_i32_eqz
\* returns false and changes nothing.
C32_UnsetOnlyAppends == [][call'.op \in LastInstrOps /\ last_instr = None =>
  /\ Len(instrs') >= Len(instrs)
  /\ SubSeq(stamp', 1, Len(stamp)) = stamp
  /\ \A i \in DOMAIN instrs : instrs'[i] = instrs[i] \/ FuelBumped(i)
  /\ (call'.op = "fuse_i32_eqz" => ret' = Ok(0) /\ EncNext = Enc)]_vars

\* After reset_last_instr, encode_local_set with a preserved register left the
\* i32.and that wrote the value as it was, bumped the fuel, and appended both copies.
C32_Witness == call.op = "encode_local_set" /\ call.preserved # None /\ call.before = None /\ call.value = Register(NumLocals) /\ Len(instrs) = 4 /\ instrs[1].op = "ConsumeFuel" /\ instrs[1].amount > 0 /\ instrs[2] = input.word /\ instrs[3].op = "Copy" /\ instrs[4].op = "Copy" /\ last_instr = 3

\* After reset_last_instr, a branch was appended behind the i32.and it did not fuse
\* with.
C32_WitnessBranch == call.op = "encode_branch_eqz" /\ IsOk(ret) /\ Len(instrs) = 2 /\ instrs[1] = input.word /\ instrs[2] = branch_i32_eqz(call.condition, uninit)

(***************************************************************************)
(* Execution of the copy instructions that encode_copies declares free of  *)
(* overlap, under SpecOverlap.                                             *)
(***************************************************************************)
\* The registers of a chain of register-list words, in word order.
RECURSIVE FlatRegs(_)
FlatRegs(ws) == IF ws = <<>> THEN <<>> ELSE ws[1].regs \o FlatRegs(Tail(ws))

\* The registers a copy instruction reads, in the order of its destinations: those
\* of the span, or the two of the head word and those of the words that follow it.
SourcesOf(ws) == IF ws[1].op = "CopySpanNonOverlapping" THEN [i \in 1 .. ws[1].len |-> ws[1].values + (i - 1)] ELSE ws[1].values \o FlatRegs(Tail(ws))

\* The registers a copy to the span at d from srcs reads or writes.
CopyRegisters(d, srcs) == {srcs[i] : i \in DOMAIN srcs} \cup (d .. (d + Len(srcs) - 1))

\* The register contents after the copies i .. Len(srcs) were executed one after
\* another, in increasing order of the destination, on the contents R.
RECURSIVE OneByOne(_, _, _, _)
OneByOne(R, d, srcs, i) == IF i > Len(srcs) THEN R ELSE OneByOne([R EXCEPT ![d + (i - 1)] = R[srcs[i]]], d, srcs, i + 1)

\* The register contents after all copies were performed at once on the contents R.
AtOnce(R, d, srcs) == [r \in DOMAIN R |-> IF r >= d /\ r < d + Len(srcs) THEN R[srcs[r - d + 1]] ELSE R[r]]

\* The contents in which every register holds a value of its own, its name: the
\* copies do not look at the values, so two executions that agree on these contents
\* agree on all.
Distinct(d, srcs) == [r \in CopyRegisters(d, srcs) |-> r]

\* The words the step appended are a copy instruction declared free of overlap.
NonOverlappingEmitted == Appended # <<>> /\ Appended[1].op \in {"CopyManyNonOverlapping", "CopySpanNonOverlapping"}

\* C33: whenever encode_copies emits copy_many_non_overlapping or
\* copy_span_non_overlapping, executing the copies one after another in increasing
\* order of the destination gives the same final register contents as performing
\* all of them at once on the initial contents, for all register contents.
C33_NonOverlappingIsSequential == [][call'.op = "encode_copies" /\ NonOverlappingEmitted =>
  LET d == Appended[1].results
      srcs == SourcesOf(Appended)
  IN Len(srcs) >= 3 /\ OneByOne(Distinct(d, srcs), d, srcs, 1) = AtOnce(Distinct(d, srcs), d, srcs)]_vars

\* copy_many_non_overlapping was emitted for values that read a destination of the
\* instruction, one that is written behind the read.
C33_Witness == call.op = "encode_copies" /\ Len(instrs) >= 2 /\ instrs[Len(instrs) - 1].op = "CopyManyNonOverlapping" /\ instrs[Len(instrs)].op = "Register" /\ instrs[Len(instrs) - 1].values[2] = instrs[Len(instrs) - 1].results + 2

\* copy_span_non_overlapping was emitted for a span that overlaps its destination
\* from above.
C33_WitnessSpan == call.op = "encode_copies" /\ instrs # <<>> /\ instrs[Len(instrs)].op = "CopySpanNonOverlapping" /\ instrs[Len(instrs)].values = instrs[Len(instrs)].results + 1

C34_WitnessLargest == call.op = "push_before" /\ call.instr = InstrIndexMax /\ ret.tag = "Panic" /\ Len(instrs) = InstrIndexMax + 2

(***************************************************************************)
(* Properties of the branches on a comparison with zero, under SpecFuse.   *)
(***************************************************************************)
\* The unary branch that encode_branch_eqz (eqz = TRUE) or encode_branch_nez makes of
\* the comparison `op` of register reg with the immediate zero.
ZeroBranch(eqz, op, reg, offset) ==
  CASE op = "I32EqImm16" -> IF eqz THEN branch_i32_nez(reg, offset) ELSE branch_i32_eqz(reg, offset)
    [] op = "I64EqImm16" -> IF eqz THEN branch_i64_nez(reg, offset) ELSE branch_i64_eqz(reg, offset)
    [] op = "I32NeImm16" -> IF eqz THEN branch_i32_eqz(reg, offset) ELSE branch_i32_nez(reg, offset)
    [] op = "I64NeImm16" -> IF eqz THEN branch_i64_eqz(reg, offset) ELSE branch_i64_nez(reg, offset)

\* The last instruction compares a register with the immediate zero for equality or
\* inequality, and its result is no local.
ZeroComparison == last_instr # None /\ instrs[last_instr + 1].op \in {"I32EqImm16", "I64EqImm16", "I32NeImm16", "I64NeImm16"} /\ instrs[last_instr + 1].imm_in = 0 /\ get_register_space(instrs[last_instr + 1].result) # "Local"

\* C35: with last instruction I32EqImm16 or I64EqImm16 with immediate 0 and a result
\* that is no local, encode_branch_eqz replaces it by branch_i32_nez / branch_i64_nez
\* on the compared register and encode_branch_nez by branch_i32_eqz / branch_i64_eqz;
\* for I32NeImm16 / I64NeImm16 with immediate 0 the polarities are swapped.  The
\* branch carries the offset to the label from the last instruction (the
\* uninitialised one while the label is not pinned), nothing is appended, and the
\* label gets the last instruction as user if it is not pinned.
C35_ZeroComparisonBranch == [][call'.op \in EncodeBranchOps /\ ZeroComparison /\ (labels[call'.label] # None => FitsOffset16(labels[call'.label] - last_instr)) =>
  /\ IsOk(ret')
  /\ instrs' = [instrs EXCEPT ![last_instr + 1] = ZeroBranch(call'.op = "encode_branch_eqz", @.op, @.reg_in, IF labels[call'.label] = None THEN uninit ELSE labels[call'.label] - last_instr)]
  /\ last_instr' = last_instr
  /\ users' = IF labels[call'.label] = None THEN Append(users, LabelUser(call'.label, last_instr)) ELSE users]_vars

\* encode_branch_eqz made branch_i64_nez of `i64.eq r, 0`.
C35_Witness == call.op = "encode_branch_eqz" /\ input.word.op = "I64EqImm16" /\ input.word.imm_in = 0 /\ instrs = <<branch_i64_nez(input.word.reg_in, uninit)>> /\ users = <<LabelUser(call.label, 0)>>

\* encode_branch_nez made branch_i32_nez of `i32.ne r, 0`.
C35_WitnessNe == call.op = "encode_branch_nez" /\ input.word.op = "I32NeImm16" /\ input.word.imm_in = 0 /\ instrs = <<branch_i32_nez(input.word.reg_in, uninit)>>

(***************************************************************************)
(* Properties of encode_register_list, under SpecList.                     *)
(***************************************************************************)
\* C36: encode_register_list on k providers appends exactly ceil(k/3) words, none
\* for k = 0: every word but the last is register_list with three registers, the
\* last word is register, register2 or register3 with the remaining 1, 2 or 3
\* registers, and the registers read in word order are the inputs in order, each
\* constant replaced by the slot allocated for it; the chain never ends with
\* register_list.  last_instr is not changed.
C36_RegisterList == [][call'.op = "encode_register_list" =>
  LET k == Len(call'.values)
      regs == RegsOf(call'.values, Len(consts))
  IN /\ IsOk(ret')
     /\ instrs' = instrs \o Appended
     /\ Len(Appended) = (k + 2) \div 3
     /\ \A i \in DOMAIN Appended : Appended[i].op = (IF i < Len(Appended) THEN "RegisterList" ELSE <<"Register", "Register2", "Register3">>[k - 3 * (Len(Appended) - 1)])
     /\ FlatRegs(Appended) = regs
     /\ IsRegisterList(Appended, regs)
     /\ consts' = consts \o [i \in DOMAIN ConstsOf(call'.values) |-> ConstsOf(call'.values)[i].value]
     /\ last_instr' = last_instr]_vars

\* Seven providers, constants among them, were encoded behind a head word: two
\* register_list words and a register word.
C36_Witness == call.op = "encode_register_list" /\ Len(call.values) = 7 /\ Len(instrs) = 4 /\ last_instr = 0 /\ instrs[2].op = "RegisterList" /\ instrs[3].op = "RegisterList" /\ instrs[4].op = "Register" /\ instrs[4].regs[1] < 0

\* Six providers: the chain ends with register3, not with register_list.
C36_WitnessFull == call.op = "encode_register_list" /\ Len(call.values) = 6 /\ Len(instrs) >= 2 /\ instrs[Len(instrs) - 1].op = "RegisterList" /\ instrs[Len(instrs)].op = "Register3"

(***************************************************************************)
(* Properties of the copy of a constant, under SpecConst.                  *)
(***************************************************************************)
\* The signed 64-bit value of the pattern lies in -2^31 .. 2^31 - 1.
InI32Range(bits) == ~LtS(bits, <<65535, 65535, 32768, 0>>) /\ ~LtS(<<0, 0, 32767, 65535>>, bits)

\* The step appended `word` behind the sequence, charged with the base cost.
CopyAppended(word) == instrs' = Append(Charged(instrs, call'.fuel_info, FuelCostsBase), word)

\* The step's copy took the constant-slot path: exactly one slot was allocated for
\* the value, and copy(dst, slot) appended.
SlotPath == consts' = Append(consts, call'.value.value) /\ CopyAppended(CopyInstr("Copy", call'.result, 0 - (Len(consts) + 1)))

\* C37: for an I64 constant c, encode_copy emits copy_i64imm32 without allocating a
\* constant slot iff -2^31 <= c < 2^31, with the low 32 bits of c as immediate;
\* otherwise it allocates exactly one constant slot and emits copy(dst, slot).  I32
\* constants always give copy_imm32, and constants of a reference type always take
\* the constant-slot path.
C37_CopyOfConstant == [][call'.op = "encode_copy" /\ call'.value.kind = "Const" /\ call'.value.value.ty \in {"I64", "I32", "FuncRef", "ExternRef"} /\ Len(instrs) <= InstrIndexMax =>
  LET c == call'.value.value IN
  CASE c.ty = "I64" -> IF InI32Range(c.bits) THEN consts' = consts /\ CopyAppended(CopyInstr("CopyI64Imm32", call'.result, SubSeq(c.bits, 3, 4))) ELSE SlotPath
    [] c.ty = "I32" -> consts' = consts /\ CopyAppended(CopyInstr("CopyImm32", call'.result, c.bits))
    [] OTHER -> SlotPath]_vars

\* The i64 constants 2^31 - 1 and -2^31 were copied as immediates.
C37_Witness == call.op = "encode_copy" /\ call.value.kind = "Const" /\ call.value.value.ty = "I64" /\ call.value.value.bits \in {<<0, 0, 32767, 65535>>, <<65535, 65535, 32768, 0>>} /\ consts = <<>> /\ instrs # <<>> /\ instrs[Len(instrs)].op = "CopyI64Imm32"

\* The i64 constants 2^31 and -2^31 - 1 were copied from a constant slot.
C37_WitnessSlot == call.op = "encode_copy" /\ call.value.kind = "Const" /\ call.value.value.ty = "I64" /\ call.value.value.bits \in {<<0, 0, 32768, 0>>, <<65535, 65535, 32767, 65535>>} /\ Len(consts) = 1 /\ instrs # <<>> /\ instrs[Len(instrs)] = CopyInstr("Copy", call.result, 0 - 1)

\* A constant of a reference type was copied from a constant slot.
C37_WitnessRef == call.op = "encode_copy" /\ call.value.kind = "Const" /\ call.value.value.ty = "FuncRef" /\ Len(consts) = 1 /\ instrs # <<>> /\ instrs[Len(instrs)] = CopyInstr("Copy", call.result, 0 - 1)

(***************************************************************************)
(* The word at notified_preservation, under SpecLocal, SpecDefrag and      *)
(* SpecHandle.                                                             *)
(***************************************************************************)
\* The recorded preservation handle refers to a Copy word of the sequence.
IndexesCopy(handle) == handle < Len(instrs) /\ instrs[handle + 1].op = "Copy"

\* C38: notified_preservation, whenever it is set, indexes a Copy instruction word,
\* whatever operations have followed the encode_local_set that recorded it.
C38_NotifiedIndexesCopy == notified_preservation # None => IndexesCopy(notified_preservation)

\* The same in every state that drain_instrs did not produce, where it holds:
\* drain_instrs empties the sequence and keeps the recorded handle.
NotifiedIndexesCopyUntilDrained == call.op # "drain_instrs" => C38_NotifiedIndexesCopy

\* Every handle that encode_local_set passes to notify_preserved_register refers,
\* when encode_local_set returns, to the word copy(preserved, local).
NotifiedPreservationCopy == [][call'.op = "encode_local_set" /\ ret'.tag # "Panic" =>
  \A i \in DOMAIN call'.notified : call'.notified[i] < Len(instrs') /\ instrs'[call'.notified[i] + 1] = CopyInstr("Copy", call'.preserved, call'.local)]_vars

\* A second local.set preserved its local again: the handle recorded first is kept,
\* and both handles refer to Copy words.
NotifiedKeptBySecondLocalSet == call.op = "encode_local_set" /\ ret.tag = "Ok" /\ call.notified # <<>> /\ notified_preservation # None /\ notified_preservation < call.notified[1] /\ IndexesCopy(notified_preservation) /\ IndexesCopy(call.notified[1])

\* The recorded handle is the one push_before inserted the preservation copy at.
NotifiedAtInsertedCopy == call.op = "encode_local_set" /\ call.before # None /\ notified_preservation = call.before /\ IndexesCopy(notified_preservation) /\ last_instr = call.before + 1

\* The sequence drained after a preservation: the recorded handle refers to no word.
NotifiedKeptByDrain == call.op = "drain_instrs" /\ notified_preservation # None /\ ~IndexesCopy(notified_preservation)

(***************************************************************************)
(* The instruction that last_instr designates, under SpecWidth.            *)
(***************************************************************************)
\* The parameter words that follow the head word of an instruction.
ParameterOps == {"Register", "Register2", "Register3", "RegisterList"}

\* The words from last_instr to the end: the head word of an instruction, then its
\* parameter words only.
HeadAndParameters == last_instr < Len(instrs) /\ instrs[last_instr + 1].op \notin ParameterOps /\ \A i \in (last_instr + 2) .. Len(instrs) : instrs[i].op \in ParameterOps

\* C39: last_instr, when set, always designates the head word of the instruction
\* most recently pushed with push_instr, so that the words from last_instr to
\* next_instr are that head word and the parameter words appended since.
C39_LastInstrIsHead == last_instr # None => HeadAndParameters

\* The same in every state that drain_instrs did not produce, where it holds:
\* drain_instrs empties the sequence and keeps last_instr.
LastInstrIsHeadUntilDrained == call.op # "drain_instrs" => C39_LastInstrIsHead

\* push_instr sets last_instr to the word it pushed; append_instr and
\* encode_register_list only append words and keep last_instr; the preservation
\* insert of encode_local_set moves last_instr by one, with the word it designates.
LastInstrFollowsPush == [][ret'.tag = "Ok" =>
  /\ call'.op = "push_instr" => last_instr' = Len(instrs) /\ instrs' = Append(instrs, call'.instr)
  /\ call'.op \in {"append_instr", "encode_register_list"} => last_instr' = last_instr /\ SubSeq(instrs', 1, Len(instrs)) = instrs /\ \A i \in (Len(instrs) + 1) .. Len(instrs') : instrs'[i].op \in ParameterOps
  /\ call'.op = "encode_local_set" /\ call'.before # None /\ call'.preserved # None => last_instr' = last_instr + 1 /\ stamp'[last_instr' + 1] = stamp[last_instr + 1]
  /\ call'.op = "encode_local_set" /\ call'.before # None /\ call'.preserved = None => last_instr' = last_instr /\ stamp' = stamp]_vars

\* A register list of two words appended to an instruction with one parameter word:
\* last_instr is the head word, four words before next_instr.
WidthAfterRegisterList == call.op = "encode_register_list" /\ Len(call.values) = 4 /\ last_instr # None /\ Len(instrs) - last_instr = 4 /\ instrs[last_instr + 1] = input.word /\ instrs[last_instr + 2].op = "Register" /\ instrs[last_instr + 3].op = "RegisterList"

\* The preservation copy inserted before an instruction with a parameter word:
\* last_instr moved to the relinked head word, whose width is unchanged.
WidthAfterPreservation == call.op = "encode_local_set" /\ call.before # None /\ call.preserved # None /\ last_instr = call.before + 1 /\ instrs[last_instr].op = "Copy" /\ instrs[last_instr + 1].op = "I32Add" /\ Len(instrs) - last_instr >= 2 /\ HeadAndParameters

\* The sequence drained while last_instr was set: it designates no word.
LastInstrKeptByDrain == call.op = "drain_instrs" /\ last_instr # None /\ ~HeadAndParameters

====
